---------------------------- MODULE Spec2Model ----------------------------
(***************************************************************************)
(* Departure acquisition and adaptive polling engine of the LilyGo T5 bus  *)
(* timetable display: the per-stop Aggregator of both provider clients,    *)
(* the quota ledger, the adaptive poller, the decay engine and the         *)
(* cooperative control loop that drives them.                              *)
(***************************************************************************)
EXTENDS Integers, Sequences, FiniteSets, TLC

(***************************************************************************)
(* Program constants                                                       *)
(***************************************************************************)
ACTIVE_HOURS_START == 6
ACTIVE_HOURS_END == 23
API_DAILY_LIMIT == 1000
TRANSPORT_API_DAILY_LIMIT == 300
BUS_DATA_REFRESH_INTERVAL_MS == 600000
DISPLAY_PARTIAL_REFRESH_INTERVAL == 60000
MIN_AUTO_REFETCH_INTERVAL_MS == 300000
MAX_RETRIES == 2
MAX_BUSES_PER_STOP == 3
MAX_VISITS_PER_STOP == 30
MAX_DEPARTURES_ARG == 30
DEPARTURES_CAPACITY == 20
TARGET_DEPARTURES == 5
HTTP_CODE_OK == 200
HTTP_CODE_UNAUTHORIZED == 401
HTTP_CODE_FORBIDDEN == 403
WALK_TIME_LIBRARY == 10
WALK_TIME_HARE_HOUNDS == 20
WALK_TIME_ST_JOHNS == 25
WALK_TIME_CHELTENHAM == 10

TO_CHELTENHAM == "TO_CHELTENHAM"
TO_CHURCHDOWN == "TO_CHURCHDOWN"
Direction == {TO_CHELTENHAM, TO_CHURCHDOWN}

(* unsigned long arithmetic of the ESP32 (32 bits) *)
(* unsigned long (32 bits).  A value is written in two's complement: v when *)
(* v < 2^31 and v - 2^32 otherwise, so that a difference that wraps is a    *)
(* negative number which stands for a value of at least 2^31.  millis()     *)
(* stays below 2^31 in the model.  2^32 = WrapMinutes * 60000 + WrapRest.   *)
WrapMinutes == 2 * (2147483647 \div 60000)
WrapRest == 2 * ((2147483647 % 60000) + 1)
USub(a, b) == a - b
UAdd(a, b) == a + b
UGe(x, c) == x < 0 \/ x >= c
ULt(x, c) == ~UGe(x, c)
UDivMinute(x) == IF x >= 0 THEN x \div 60000 ELSE WrapMinutes + ((WrapRest + x) \div 60000)
UMulMinute(m) ==
    IF m <= WrapMinutes \div 2 THEN m * 60000 ELSE (m - WrapMinutes) * 60000 - WrapRest

(* the value of F at v, with v computed once *)
Once(v, F(_)) == CHOOSE r \in { F(x) : x \in {v} } : TRUE

(***************************************************************************)
(* StopCatalog                                                             *)
(***************************************************************************)
cheltenhamStops ==
    << [name |-> "Churchdown Library", walkingTimeMinutes |-> WALK_TIME_LIBRARY],
       [name |-> "Hare & Hounds", walkingTimeMinutes |-> WALK_TIME_HARE_HOUNDS],
       [name |-> "St John's Church", walkingTimeMinutes |-> WALK_TIME_ST_JOHNS] >>

churchdownStops ==
    << [name |-> "Promenade (Stop 3)", walkingTimeMinutes |-> WALK_TIME_CHELTENHAM],
       [name |-> "Promenade (Stop 5)", walkingTimeMinutes |-> WALK_TIME_CHELTENHAM] >>

StopsOf(direction) ==
    IF direction = TO_CHELTENHAM THEN cheltenhamStops ELSE churchdownStops

targetRoutes == << "94", "95", "96", "97", "98" >>

(* faulty variant: any route that has a name *)
isTargetRouteAny(route) == route # ""

isTargetRoute(route) == \E i \in 1..Len(targetRoutes) : targetRoutes[i] = route

(* Destination texts are sequences of characters, so that toLowerCase and   *)
(* indexOf are computed rather than assumed.                                *)
ToLowerChar(c) ==
    CASE c = "A" -> "a" [] c = "B" -> "b" [] c = "C" -> "c" [] c = "D" -> "d"
      [] c = "E" -> "e" [] c = "F" -> "f" [] c = "G" -> "g" [] c = "H" -> "h"
      [] c = "I" -> "i" [] c = "J" -> "j" [] c = "K" -> "k" [] c = "L" -> "l"
      [] c = "M" -> "m" [] c = "N" -> "n" [] c = "O" -> "o" [] c = "P" -> "p"
      [] c = "Q" -> "q" [] c = "R" -> "r" [] c = "S" -> "s" [] c = "T" -> "t"
      [] c = "U" -> "u" [] c = "V" -> "v" [] c = "W" -> "w" [] c = "X" -> "x"
      [] c = "Y" -> "y" [] c = "Z" -> "z"
      [] OTHER -> c

toLowerCase(s) == [i \in 1..Len(s) |-> ToLowerChar(s[i])]

indexOfFound(s, t) ==
    \E i \in 1..(Len(s) - Len(t) + 1) : SubSeq(s, i, i + Len(t) - 1) = t

cheltenhamDestinations ==
    << <<"c","h","e","l","t","e","n","h","a","m">>,
       <<"c","h","e","l","t","e","n","h","a","m"," ","s","p","a">>,
       <<"c","h","e","l","t">>,
       <<"p","r","o","m","e","n","a","d","e">> >>

churchdownDestinations ==
    << <<"g","l","o","u","c","e","s","t","e","r">>,
       <<"g","l","o","u","c","e","s","t","e","r"," ","t","r","a","n","s","p","o","r","t"," ","h","u","b">>,
       <<"t","r","a","n","s","p","o","r","t"," ","h","u","b">>,
       <<"c","h","u","r","c","h","d","o","w","n">> >>

isValidDestination(destination, dir) ==
    LET lower == toLowerCase(destination)
        targets == IF dir = TO_CHELTENHAM THEN cheltenhamDestinations
                   ELSE churchdownDestinations
    IN \E i \in 1..4 : indexOfFound(lower, targets[i])

(***************************************************************************)
(* Normalizer (Nextbus client)                                             *)
(* A raw time is the HH:MM of the ISO-8601 string as a minute of the day,  *)
(* or NoTime for an absent tag.                                            *)
(***************************************************************************)
NoTime == -1
UnknownDisplay == -1

(* faulty variant: no second look at a time more than an hour in the past *)
NextbusParseNoSanity(timeStr, synced, nowMinutes) ==
    IF ~synced THEN [displayTime |-> UnknownDisplay, minutesUntil |-> -1]
    ELSE IF timeStr = NoTime THEN [displayTime |-> UnknownDisplay, minutesUntil |-> 999]
    ELSE [displayTime |-> timeStr,
          minutesUntil |-> (IF timeStr < nowMinutes - 720 THEN timeStr + 24 * 60
                            ELSE timeStr) - nowMinutes]

NextbusParseDepartureTime(timeStr, synced, nowMinutes) ==
    IF ~synced THEN [displayTime |-> UnknownDisplay, minutesUntil |-> -1]
    ELSE IF timeStr = NoTime THEN [displayTime |-> UnknownDisplay, minutesUntil |-> 999]
    ELSE LET dep1 == IF timeStr < nowMinutes - 720 THEN timeStr + 24 * 60 ELSE timeStr
             m1 == dep1 - nowMinutes
         IN [displayTime |-> timeStr,
             minutesUntil |-> IF m1 < -60 THEN (dep1 + 24 * 60) - nowMinutes ELSE m1]

(* parseDepartureTime, the fallback branch taken by a plain HH:MM string *)
NextbusParseSimpleTime(timeStr, synced, nowMinutes) ==
    IF ~synced THEN [displayTime |-> UnknownDisplay, minutesUntil |-> -1]
    ELSE IF timeStr = NoTime THEN [displayTime |-> UnknownDisplay, minutesUntil |-> 999]
    ELSE LET dep1 == IF timeStr < nowMinutes - 720 THEN timeStr + 24 * 60 ELSE timeStr
         IN [displayTime |-> timeStr, minutesUntil |-> dep1 - nowMinutes]

StatusText(isLive, aimedKnown, delay) ==
    IF isLive /\ aimedKnown
    THEN (IF delay >= 2 THEN [kind |-> "Delayed", n |-> delay]
          ELSE IF delay <= -2 THEN [kind |-> "Early", n |-> -delay]
          ELSE [kind |-> "On time", n |-> 0])
    ELSE [kind |-> IF isLive THEN "Live" ELSE "Scheduled", n |-> 0]

(* One MonitoredStopVisit of parseSiriResponse: the entry it appends, or    *)
(* "skip" when the visit is filtered out.                                   *)
NextbusVisit(v, stop, currentDirection, synced, nowMinutes) ==
    IF ~isTargetRoute(v.route) THEN [skip |-> TRUE]
    ELSE IF ~isValidDestination(v.dest, currentDirection) THEN [skip |-> TRUE]
    ELSE LET timeToUse == IF v.expected # NoTime THEN v.expected ELSE v.aimed
             p == NextbusParseDepartureTime(timeToUse, synced, nowMinutes)
             isLive == v.expected # NoTime
             a == NextbusParseDepartureTime(v.aimed, synced, nowMinutes)
         IN IF p.minutesUntil < 0 THEN [skip |-> TRUE]
            ELSE [skip |-> FALSE,
                  dep |-> [busNumber |-> v.route,
                           stopName |-> stop.name,
                           destination |-> v.dest,
                           departureTime |-> p.displayTime,
                           minutesUntilDeparture |-> p.minutesUntil,
                           walkingTimeMinutes |-> stop.walkingTimeMinutes,
                           isLive |-> isLive,
                           statusText |-> StatusText(isLive, v.aimed # NoTime,
                                                      p.minutesUntil - a.minutesUntil)]]

(* faulty variant: no cap on the entries taken from one stop *)
RECURSIVE parseSiriUncapped(_, _, _, _, _, _, _, _, _)
parseSiriUncapped(visits, k, stop, deps, added, maxCount, maxPerStop, currentDirection, clk) ==
    IF k > Len(visits) THEN deps
    ELSE IF Len(deps) >= maxCount THEN deps
    ELSE IF added >= MAX_VISITS_PER_STOP THEN deps
    ELSE Once(NextbusVisit(visits[k], stop, currentDirection, clk.synced, clk.nowMinutes),
              LAMBDA r :
                 IF r.skip
                 THEN parseSiriUncapped(visits, k + 1, stop, deps, added, maxCount,
                                        maxPerStop, currentDirection, clk)
                 ELSE Once(Append(deps, r.dep), LAMBDA appended :
                         parseSiriUncapped(visits, k + 1, stop, appended, added + 1,
                                           maxCount, maxPerStop, currentDirection, clk)))

RECURSIVE parseSiriResponse(_, _, _, _, _, _, _, _, _)
parseSiriResponse(visits, k, stop, deps, added, maxCount, maxPerStop, currentDirection, clk) ==
    IF k > Len(visits) THEN deps
    ELSE IF added >= maxPerStop THEN deps
    ELSE IF Len(deps) >= maxCount THEN deps
    ELSE IF added >= MAX_VISITS_PER_STOP THEN deps
    ELSE Once(NextbusVisit(visits[k], stop, currentDirection, clk.synced, clk.nowMinutes),
              LAMBDA r :
                 IF r.skip
                 THEN parseSiriResponse(visits, k + 1, stop, deps, added, maxCount,
                                        maxPerStop, currentDirection, clk)
                 ELSE Once(Append(deps, r.dep), LAMBDA appended :
                         parseSiriResponse(visits, k + 1, stop, appended, added + 1,
                                           maxCount, maxPerStop, currentDirection, clk)))

(***************************************************************************)
(* Provider call with retry: codes are the HTTP results of the successive  *)
(* attempts the stop's request would get.                                  *)
(***************************************************************************)
(* faulty variant: the request is repeated after a success too *)
HttpRetryRegardless(codes, retries, httpCode) ==
    [httpCode |-> codes[1 + MAX_RETRIES], attempts |-> 1 + MAX_RETRIES,
     delays |-> [a \in 1..MAX_RETRIES |-> 500 * a]]

(* delays: the delay() made before each further attempt, in ms *)
RECURSIVE HttpRetryLoop(_, _, _)
HttpRetryLoop(codes, retries, httpCode) ==
    IF retries <= MAX_RETRIES /\ httpCode # HTTP_CODE_OK
    THEN LET c == codes[retries + 1]
         IN IF c # HTTP_CODE_OK /\ retries < MAX_RETRIES
            THEN Once(HttpRetryLoop(codes, retries + 1, c), LAMBDA r :
                    [r EXCEPT !.delays = << 500 * (retries + 1) >> \o @])
            ELSE [httpCode |-> c, attempts |-> retries + 1, delays |-> << >>]
    ELSE [httpCode |-> httpCode, attempts |-> retries, delays |-> << >>]

HttpRequest(codes) == HttpRetryLoop(codes, 0, 0)

(***************************************************************************)
(* Aggregator helpers shared by both clients                               *)
(***************************************************************************)
LeaveIn(d) == d.minutesUntilDeparture - d.walkingTimeMinutes

Abs(x) == IF x < 0 THEN -x ELSE x

Swap(a, i, j) == [a EXCEPT ![i] = a[j], ![j] = a[i]]

(* the exchange sort of fetchDepartures: for i, for j > i, swap when        *)
(* leaveIn[j] < leaveIn[i]                                                  *)
RECURSIVE SortInner(_, _, _)
SortInner(a, i, j) ==
    IF j > Len(a) THEN a
    ELSE Once(IF LeaveIn(a[j]) < LeaveIn(a[i]) THEN Swap(a, i, j) ELSE a,
              LAMBDA b : SortInner(b, i, j + 1))

RECURSIVE SortOuter(_, _)
SortOuter(a, i) ==
    IF i > Len(a) - 1 THEN a
    ELSE Once(SortInner(a, i, i + 1), LAMBDA b : SortOuter(b, i + 1))

(* faulty variant: the candidates are left in fetch order *)
SortLeftOut(a) == a

SortByLeaveIn(a) == IF Len(a) > 1 THEN SortOuter(a, 1) ELSE a

(* faulty variant: the route is not compared *)
IsDuplicateAnyRoute(d, e, tolerance) ==
    /\ d.stopName = e.stopName
    /\ Abs(d.minutesUntilDeparture - e.minutesUntilDeparture) <= tolerance

IsDuplicateOf(d, e, tolerance) ==
    /\ d.busNumber = e.busNumber
    /\ d.stopName = e.stopName
    /\ Abs(d.minutesUntilDeparture - e.minutesUntilDeparture) <= tolerance

(* faulty variant: compares a candidate with the last kept entry only *)
RECURSIVE RemoveDuplicatesAdjacent(_, _, _, _)
RemoveDuplicatesAdjacent(a, i, kept, tolerance) ==
    IF i > Len(a) THEN kept
    ELSE Once(IF Len(kept) > 0 /\ IsDuplicateOf(a[i], kept[Len(kept)], tolerance)
              THEN kept ELSE Append(kept, a[i]),
              LAMBDA unique : RemoveDuplicatesAdjacent(a, i + 1, unique, tolerance))

RECURSIVE RemoveDuplicates(_, _, _, _)
RemoveDuplicates(a, i, kept, tolerance) ==
    IF i > Len(a) THEN kept
    ELSE Once(IF \E j \in 1..Len(kept) : IsDuplicateOf(a[i], kept[j], tolerance)
              THEN kept ELSE Append(kept, a[i]),
              LAMBDA unique : RemoveDuplicates(a, i + 1, unique, tolerance))

IsCatchable(d) == LeaveIn(d) >= 0

FilterCatchable(a) == SelectSeq(a, IsCatchable)


(***************************************************************************)
(* Aggregator, Nextbus client (the client the build selects)               *)
(* world[i] is what stop i answers: the HTTP codes of its attempts and the *)
(* visits of its response.  clk is the local clock the Normalizer reads.   *)
(***************************************************************************)
(* faulty variant: a failed stop leaves no error text *)
NextbusHttpErrorBlank(httpCode) == ""

NextbusHttpError(httpCode) ==
    IF httpCode = HTTP_CODE_UNAUTHORIZED THEN "Authentication failed - check credentials"
    ELSE IF httpCode = HTTP_CODE_FORBIDDEN THEN "Access forbidden - check API permissions"
    ELSE "HTTP " \o ToString(httpCode)

RECURSIVE NextbusStopLoop(_, _, _, _, _, _)
(* one pass of the stop loop: h is what the request ended with, deps the    *)
(* buffer after the stop's response was parsed                               *)
NextbusStopDone(i, stopCount, acc, h, deps) ==
    [departures |-> deps,
     lastApiCallCount |-> acc.lastApiCallCount + 1,
     lastError |-> IF h.httpCode = HTTP_CODE_OK THEN acc.lastError
                   ELSE NextbusHttpError(h.httpCode),
     fetchedAllStops |-> acc.fetchedAllStops \/ (i = stopCount),
     httpAttempts |-> acc.httpAttempts + h.attempts,
     tries |-> Append(acc.tries, h),
     queried |-> Append(acc.queried, i),
     failed |-> IF h.httpCode = HTTP_CODE_OK THEN acc.failed ELSE Append(acc.failed, i),
     gathered |-> Append(acc.gathered, deps)]

(* faulty variant: the loop ends once a stop's worth of candidates is there *)
RECURSIVE NextbusStopLoopEarly(_, _, _, _, _, _)
NextbusStopLoopEarly(i, stops, world, direction, clk, acc) ==
    IF i > Len(stops) \/ Len(acc.departures) >= MAX_BUSES_PER_STOP THEN acc
    ELSE Once(HttpRequest(world[i].codes), LAMBDA h :
            Once(IF h.httpCode = HTTP_CODE_OK
                 THEN parseSiriResponse(world[i].visits, 1, stops[i], acc.departures, 0,
                                        MAX_DEPARTURES_ARG, MAX_BUSES_PER_STOP,
                                        direction, clk)
                 ELSE acc.departures,
                 LAMBDA deps :
                    Once(NextbusStopDone(i, Len(stops), acc, h, deps), LAMBDA next :
                       NextbusStopLoopEarly(i + 1, stops, world, direction, clk, next))))

NextbusStopLoop(i, stops, world, direction, clk, acc) ==
    IF i > Len(stops) THEN acc
    ELSE Once(HttpRequest(world[i].codes), LAMBDA h :
            Once(IF h.httpCode = HTTP_CODE_OK
                 THEN parseSiriResponse(world[i].visits, 1, stops[i], acc.departures, 0,
                                        MAX_DEPARTURES_ARG, MAX_BUSES_PER_STOP,
                                        direction, clk)
                 ELSE acc.departures,
                 LAMBDA deps :
                    Once(NextbusStopDone(i, Len(stops), acc, h, deps), LAMBDA next :
                       NextbusStopLoop(i + 1, stops, world, direction, clk, next))))

AggregatorStart ==
    [departures |-> << >>, lastApiCallCount |-> 0, lastError |-> "",
     fetchedAllStops |-> FALSE, httpAttempts |-> 0, tries |-> << >>,
     queried |-> << >>, failed |-> << >>, gathered |-> << >>]

NextbusDedup(a) == RemoveDuplicates(a, 1, << >>, 1)

(* faulty variant: a failed stop fails the run *)
NextbusResultStrict(got, unique, final) ==
    [success |-> Len(final) > 0 /\ Len(got.failed) = 0,
     departures |-> final,
     unique |-> unique,
     lastApiCallCount |-> got.lastApiCallCount,
     lastError |-> got.lastError,
     fetchedAllStops |-> got.fetchedAllStops,
     httpAttempts |-> got.httpAttempts,
     tries |-> got.tries,
     queried |-> got.queried,
     failed |-> got.failed,
     gathered |-> got.gathered]

NextbusResult(got, unique, final) ==
    [success |-> Len(final) > 0,
     departures |-> final,
     unique |-> unique,
     lastApiCallCount |-> got.lastApiCallCount,
     lastError |-> got.lastError,
     fetchedAllStops |-> got.fetchedAllStops,
     httpAttempts |-> got.httpAttempts,
     tries |-> got.tries,
     queried |-> got.queried,
     failed |-> got.failed,
     gathered |-> got.gathered]

NextbusFetchDepartures(direction, world, forceFetchAll, clk) ==
    Once(NextbusStopLoop(1, StopsOf(direction), world, direction, clk, AggregatorStart),
         LAMBDA got :
            Once(SortByLeaveIn(got.departures), LAMBDA sorted :
               Once(NextbusDedup(sorted), LAMBDA unique :
                  Once(FilterCatchable(unique), LAMBDA filtered :
                     Once(SortByLeaveIn(filtered), LAMBDA final :
                        NextbusResult(got, unique, final))))))

(***************************************************************************)
(* Normalizer and Aggregator, Transport client                             *)
(***************************************************************************)
TransportParseDepartureTime(timeStr, estimateStr, synced, nowMinutes) ==
    IF ~synced THEN [displayTime |-> timeStr, minutesUntil |-> 0]
    ELSE LET actual == IF timeStr = NoTime /\ estimateStr # NoTime THEN estimateStr
                       ELSE timeStr
         IN IF actual # NoTime
            THEN LET dep == IF actual < nowMinutes - 60 THEN actual + 24 * 60 ELSE actual
                 IN [displayTime |-> actual, minutesUntil |-> dep - nowMinutes]
            ELSE [displayTime |-> UnknownDisplay, minutesUntil |-> 0]

(* best_departure_estimate of the provider: the expected time when there is *)
(* one, the aimed time otherwise                                            *)
BestEstimate(v) == IF v.expected # NoTime THEN v.expected ELSE v.aimed

TransportVisit(v, stop, currentDirection, synced, nowMinutes) ==
    IF ~isValidDestination(v.dest, currentDirection) THEN [skip |-> TRUE]
    ELSE LET p == TransportParseDepartureTime(
                     IF v.expected # NoTime THEN v.expected ELSE v.aimed,
                     BestEstimate(v), synced, nowMinutes)
             isLive == v.expected # NoTime
             a == TransportParseDepartureTime(v.aimed, NoTime, synced, nowMinutes)
         IN IF p.minutesUntil < 0 THEN [skip |-> TRUE]
            ELSE [skip |-> FALSE,
                  dep |-> [busNumber |-> v.route,
                           stopName |-> stop.name,
                           destination |-> v.dest,
                           departureTime |-> p.displayTime,
                           minutesUntilDeparture |-> p.minutesUntil,
                           walkingTimeMinutes |-> stop.walkingTimeMinutes,
                           isLive |-> isLive,
                           statusText |-> StatusText(isLive, v.aimed # NoTime,
                                                      p.minutesUntil - a.minutesUntil)]]

RECURSIVE TransportRouteLoop(_, _, _, _, _, _, _)
TransportRouteLoop(routeDepartures, k, stop, deps, maxCount, currentDirection, clk) ==
    IF k > Len(routeDepartures) THEN deps
    ELSE IF Len(deps) >= maxCount THEN deps
    ELSE LET r == TransportVisit(routeDepartures[k], stop, currentDirection,
                                 clk.synced, clk.nowMinutes)
         IN TransportRouteLoop(routeDepartures, k + 1, stop,
                               IF r.skip THEN deps ELSE Append(deps, r.dep),
                               maxCount, currentDirection, clk)

(* the response groups its departures by route; the target routes are read *)
(* in the order of targetRoutes                                            *)
RECURSIVE parseStopDepartures(_, _, _, _, _, _, _)
parseStopDepartures(visits, r, stop, deps, maxCount, currentDirection, clk) ==
    IF r > Len(targetRoutes) \/ Len(deps) >= maxCount THEN deps
    ELSE LET routeDepartures == SelectSeq(visits, LAMBDA v : v.route = targetRoutes[r])
         IN parseStopDepartures(visits, r + 1, stop,
                TransportRouteLoop(routeDepartures, 1, stop, deps, maxCount,
                                   currentDirection, clk),
                maxCount, currentDirection, clk)

likelyUniqueCatchable(deps) ==
    Cardinality({j \in 1..Len(deps) :
        /\ LeaveIn(deps[j]) >= 0
        /\ ~\E k \in 1..(j - 1) : IsDuplicateOf(deps[j], deps[k], 2)})

TransportEarlyStop(i, stopCount, deps) ==
    /\ i < stopCount
    /\ Len(deps) >= TARGET_DEPARTURES
    /\ likelyUniqueCatchable(deps) >= 6

RECURSIVE TransportStopLoop(_, _, _, _, _, _)
TransportStopLoop(i, stops, world, direction, clk, acc) ==
    IF i > Len(stops) THEN acc
    ELSE LET h == HttpRequest(world[i].codes)
             deps == IF h.httpCode = HTTP_CODE_OK
                     THEN parseStopDepartures(world[i].visits, 1, stops[i], acc.departures,
                                              MAX_DEPARTURES_ARG, direction, clk)
                     ELSE acc.departures
             next == [departures |-> deps,
                      lastApiCallCount |-> acc.lastApiCallCount + 1,
                      lastError |-> IF h.httpCode # HTTP_CODE_OK /\ acc.lastError = ""
                                    THEN "HTTP " \o ToString(h.httpCode)
                                    ELSE acc.lastError,
                      fetchedAllStops |-> acc.fetchedAllStops \/ (i = Len(stops)),
                      httpAttempts |-> acc.httpAttempts + h.attempts,
                      tries |-> Append(acc.tries, h),
                      queried |-> Append(acc.queried, i),
                      failed |-> IF h.httpCode = HTTP_CODE_OK THEN acc.failed
                                 ELSE Append(acc.failed, i),
                      gathered |-> Append(acc.gathered, deps)]
         IN IF TransportEarlyStop(i, Len(stops), deps) THEN next
            ELSE TransportStopLoop(i + 1, stops, world, direction, clk, next)

TransportDedup(a) == RemoveDuplicates(a, 1, << >>, 2)

FirstThree(filtered) == SubSeq(filtered, 1, IF Len(filtered) < 3 THEN Len(filtered) ELSE 3)

TransportResult(got, unique, final) ==
    [success |-> Len(final) > 0,
     departures |-> final,
     unique |-> unique,
     lastApiCallCount |-> got.lastApiCallCount,
     lastError |-> got.lastError,
     fetchedAllStops |-> got.fetchedAllStops,
     httpAttempts |-> got.httpAttempts,
     tries |-> got.tries,
     queried |-> got.queried,
     failed |-> got.failed,
     gathered |-> got.gathered]

TransportFetchDepartures(direction, world, clk) ==
    Once(TransportStopLoop(1, StopsOf(direction), world, direction, clk, AggregatorStart),
         LAMBDA got :
            Once(SortByLeaveIn(got.departures), LAMBDA sorted :
               Once(TransportDedup(sorted), LAMBDA unique :
                  Once(FilterCatchable(unique), LAMBDA filtered :
                     TransportResult(got, unique, FirstThree(filtered))))))

(***************************************************************************)
(* Bounds of the model and the inputs the environment draws from           *)
(***************************************************************************)
MaxLoops == 3
MaxCmds == 1
MaxVisits == 3
MaxOverLimit == 10
MaxDecayMinutes == 4
MaxLive == 3
MaxLeaveIn == 3
MaxLiveLoops == 7
MaxRestarts == 1

VARIABLES
    pc,                  \* "boot", "loop", "poll", "tick", "portal": position of the control loop
    clock,               \* millis()
    bootWall,            \* local wall-clock time at boot, ms since midnight of day 0
    synced,              \* getLocalTime succeeds
    now,                 \* loop(): unsigned long now = millis()
    activeHours,         \* loop(): bool activeHours
    wifiConnected, sleepModeActive, currentDirection,
    departures,          \* departures[0 .. departureCount-1]
    lastApiCallCount, lastError,
    apiCallsToday, lastApiResetDay,
    prefs,               \* the persisted quota record ("calls", "lastReset")
    lastBusUpdate, lastDisplayRefresh, lastAutoRefetch, lastCountdownUpdate,
    lastDataFetch, lastApiCountCheck,
    loops, cmds,         \* iterations and commands so far (bounded)
    runs,                \* history: number of fetchAndDisplayBuses calls
    lastRun,             \* history: the last fetchAndDisplayBuses call
    ledgerWrites,        \* history: number of saveApiCounter calls
    resetDays,           \* history: the days (index) on which the counter was reset
    lastCheckDay,        \* history: day of the last ledger check made with a known time
    lastTick,            \* history: the last handleDisplayTick
    decayedSinceRun,     \* history: minutes taken from the live set since the last run
    callsMade,           \* history: provider calls made since the last daily reset
    crashBudget,         \* abrupt restarts the environment may still cause
    lastWake,            \* history: the now of the loop iteration that ended sleep mode
    aggIn, aggOut,       \* inputs and result of one Aggregator run (SpecAgg)
    pollIn, pollOut,     \* inputs and result of one poller decision (SpecPoll)
    decayIn, decayOut,   \* inputs and result of one decay call (SpecDecay)
    normIn, normOut      \* inputs and result of one parseDepartureTime call (SpecNorm)

vars == << pc, clock, bootWall, synced, now, activeHours, wifiConnected, sleepModeActive,
           currentDirection, departures, lastApiCallCount, lastError, apiCallsToday,
           lastApiResetDay, prefs, lastBusUpdate, lastDisplayRefresh, lastAutoRefetch,
           lastCountdownUpdate, lastDataFetch, lastApiCountCheck, loops, cmds, runs,
           lastRun, ledgerWrites, resetDays, lastCheckDay, lastTick, decayedSinceRun,
           callsMade, crashBudget, lastWake,
           aggIn, aggOut, pollIn, pollOut, decayIn, decayOut, normIn, normOut >>

engineVars == << pc, clock, bootWall, synced, now, activeHours, wifiConnected,
                 sleepModeActive, currentDirection, departures, lastApiCallCount,
                 lastError, apiCallsToday, lastApiResetDay, prefs, lastBusUpdate,
                 lastDisplayRefresh, lastAutoRefetch, lastCountdownUpdate, lastDataFetch,
                 lastApiCountCheck, loops, cmds, runs, lastRun, ledgerWrites, resetDays,
                 lastCheckDay, lastTick, decayedSinceRun, callsMade, crashBudget,
                 lastWake >>

departureCount == Len(departures)

(* the engine's state as one record, threaded through the handlers *)
State ==
    [pc |-> pc, clock |-> clock, bootWall |-> bootWall, synced |-> synced, now |-> now,
     activeHours |-> activeHours, wifiConnected |-> wifiConnected,
     sleepModeActive |-> sleepModeActive, currentDirection |-> currentDirection,
     departures |-> departures, lastApiCallCount |-> lastApiCallCount,
     lastError |-> lastError, apiCallsToday |-> apiCallsToday,
     lastApiResetDay |-> lastApiResetDay, prefs |-> prefs,
     lastBusUpdate |-> lastBusUpdate, lastDisplayRefresh |-> lastDisplayRefresh,
     lastAutoRefetch |-> lastAutoRefetch, lastCountdownUpdate |-> lastCountdownUpdate,
     lastDataFetch |-> lastDataFetch, lastApiCountCheck |-> lastApiCountCheck,
     loops |-> loops, cmds |-> cmds, runs |-> runs, lastRun |-> lastRun,
     ledgerWrites |-> ledgerWrites, resetDays |-> resetDays,
     lastCheckDay |-> lastCheckDay, lastTick |-> lastTick,
     decayedSinceRun |-> decayedSinceRun, callsMade |-> callsMade,
     crashBudget |-> crashBudget, lastWake |-> lastWake]

Commit(r) ==
    /\ pc' = r.pc /\ clock' = r.clock /\ bootWall' = r.bootWall /\ synced' = r.synced
    /\ now' = r.now /\ activeHours' = r.activeHours /\ wifiConnected' = r.wifiConnected
    /\ sleepModeActive' = r.sleepModeActive /\ currentDirection' = r.currentDirection
    /\ departures' = r.departures /\ lastApiCallCount' = r.lastApiCallCount
    /\ lastError' = r.lastError /\ apiCallsToday' = r.apiCallsToday
    /\ lastApiResetDay' = r.lastApiResetDay /\ prefs' = r.prefs
    /\ lastBusUpdate' = r.lastBusUpdate /\ lastDisplayRefresh' = r.lastDisplayRefresh
    /\ lastAutoRefetch' = r.lastAutoRefetch /\ lastCountdownUpdate' = r.lastCountdownUpdate
    /\ lastDataFetch' = r.lastDataFetch /\ lastApiCountCheck' = r.lastApiCountCheck
    /\ loops' = r.loops /\ cmds' = r.cmds /\ runs' = r.runs /\ lastRun' = r.lastRun
    /\ ledgerWrites' = r.ledgerWrites /\ resetDays' = r.resetDays
    /\ lastCheckDay' = r.lastCheckDay /\ lastTick' = r.lastTick
    /\ decayedSinceRun' = r.decayedSinceRun /\ callsMade' = r.callsMade
    /\ crashBudget' = r.crashBudget /\ lastWake' = r.lastWake

(***************************************************************************)
(* Local clock: getLocalTime                                               *)
(***************************************************************************)
MsPerMinute == 60000
MsPerDay == 24 * 60 * MsPerMinute
FirstMday == 31
DaysInMonth == 31

WallMs(s) == s.bootWall + s.clock
DayIndex(s) == WallMs(s) \div MsPerDay
MdayOf(d) == ((FirstMday - 1 + d) % DaysInMonth) + 1
tm_mday(s) == MdayOf(DayIndex(s))
NowMinutes(s) == (WallMs(s) \div MsPerMinute) % (24 * 60)
tm_hour(s) == NowMinutes(s) \div 60

isActiveHoursAt(isSynced, hour) ==
    IF ~isSynced THEN TRUE
    ELSE hour >= ACTIVE_HOURS_START /\ hour < ACTIVE_HOURS_END

isActiveHours(s) == isActiveHoursAt(s.synced, tm_hour(s))

Clk(s) == [synced |-> s.synced, nowMinutes |-> NowMinutes(s)]

(***************************************************************************)
(* QuotaLedger                                                             *)
(***************************************************************************)
loadApiCounter(s) ==
    [s EXCEPT !.apiCallsToday = s.prefs.calls, !.lastApiResetDay = s.prefs.lastReset]

saveApiCounter(s) ==
    [s EXCEPT !.prefs = [calls |-> s.apiCallsToday, lastReset |-> s.lastApiResetDay],
              !.ledgerWrites = s.ledgerWrites + 1]

(* faulty variant: every check counts as a new day *)
IsNewDayAlways(currentDay, lastResetDay) == TRUE

IsNewDay(currentDay, lastResetDay) == currentDay # lastResetDay

resetApiCounterIfNewDay(s) ==
    IF ~s.synced THEN s
    ELSE LET checked == [s EXCEPT !.lastCheckDay = DayIndex(s)]
         IN IF IsNewDay(tm_mday(s), s.lastApiResetDay)
            THEN saveApiCounter([checked EXCEPT !.apiCallsToday = 0,
                                                !.callsMade = 0,
                                                !.lastApiResetDay = tm_mday(s),
                                                !.resetDays = Append(s.resetDays, DayIndex(s))])
            ELSE checked

incrementApiCallCount(s, calls) ==
    saveApiCounter([s EXCEPT !.apiCallsToday = s.apiCallsToday + calls])

(***************************************************************************)
(* AdaptivePoller                                                          *)
(***************************************************************************)
RemainingActiveHours(currentHour) ==
    IF currentHour < ACTIVE_HOURS_START THEN ACTIVE_HOURS_END - ACTIVE_HOURS_START
    ELSE IF currentHour >= ACTIVE_HOURS_END THEN 0
    ELSE ACTIVE_HOURS_END - currentHour

(* faulty variant: a refresh is taken to cost 18 calls *)
MaxRefreshesCostly(remainingCalls, currentDir) == remainingCalls \div 18

(* faulty variant: refreshes counted from the calls used, not the calls left *)
MaxRefreshesFromUsed(remainingCalls, currentDir) ==
    IF currentDir = TO_CHELTENHAM THEN ((API_DAILY_LIMIT - remainingCalls) * 2) \div 3
    ELSE API_DAILY_LIMIT - remainingCalls

MaxRefreshes(remainingCalls, currentDir) ==
    IF currentDir = TO_CHELTENHAM THEN (remainingCalls * 2) \div 3 ELSE remainingCalls

(* faulty variant: no 5-minute floor *)
ClampIntervalNoFloor(optimalInterval, remainingCalls) ==
    IF optimalInterval > 3600000 THEN 3600000
    ELSE IF optimalInterval > 1800000 /\ remainingCalls > 50 THEN 1800000
    ELSE optimalInterval

(* faulty variant: the default interval when the quota is used up *)
ExhaustedAsDefault == BUS_DATA_REFRESH_INTERVAL_MS

ExhaustedInterval == 3600000

ClampInterval(optimalInterval, remainingCalls) ==
    IF optimalInterval < 300000 THEN 300000
    ELSE IF optimalInterval > 3600000 THEN 3600000
    ELSE IF optimalInterval > 1800000 /\ remainingCalls > 50 THEN 1800000
    ELSE optimalInterval

OptimalRefreshInterval(callsToday, isSynced, currentHour, currentDir) ==
    IF ~isSynced THEN BUS_DATA_REFRESH_INTERVAL_MS
    ELSE LET remainingActiveHours == RemainingActiveHours(currentHour)
             remainingCalls == API_DAILY_LIMIT - callsToday
             maxRefreshes == MaxRefreshes(remainingCalls, currentDir)
         IN IF remainingActiveHours <= 0 THEN BUS_DATA_REFRESH_INTERVAL_MS
            ELSE IF remainingCalls <= 0 THEN ExhaustedInterval
            ELSE IF maxRefreshes <= 0 THEN ExhaustedInterval
            ELSE ClampInterval((remainingActiveHours * 3600000) \div maxRefreshes,
                               remainingCalls)

(* the state after the call (the ledger reset it starts with) and its result *)
calculateOptimalRefreshInterval(s) ==
    LET r == resetApiCounterIfNewDay(s)
    IN [state |-> r,
        interval |-> OptimalRefreshInterval(r.apiCallsToday, r.synced, tm_hour(r),
                                            r.currentDirection)]

(***************************************************************************)
(* One Aggregator run and its display: fetchAndDisplayBuses                *)
(* inp.first and inp.second are what the stops answer to the first and to  *)
(* the second fetchDepartures call; inp.ms is how long the run takes.      *)
(***************************************************************************)
(* faulty variant: the second call's count replaces the first's *)
ActualApiCallsLast(first, again, second) == IF again THEN second ELSE first

ActualApiCalls(first, again, second) == IF again THEN first + second ELSE first

FailureReason(s, success, lastErr) ==
    IF ~s.wifiConnected THEN "No WiFi"
    ELSE IF ~success /\ lastErr = "" THEN "API error"
    ELSE IF lastErr = "" THEN "No catchable buses"
    ELSE lastErr

FetchAgain(r1, forceFetchAll) == Len(r1.departures) < 3 /\ ~forceFetchAll /\ r1.success

(* the run from the results r1 and r2 of its fetchDepartures calls on *)
CountAndDisplay(s, forceFetchAll, inp, r1, r2) ==
    LET again == FetchAgain(r1, forceFetchAll)
        actualApiCalls == ActualApiCalls(r1.lastApiCallCount, again, r2.lastApiCallCount)
        counted == incrementApiCallCount(s, actualApiCalls)
        shown == r2.success /\ Len(r2.departures) > 0
        done == s.clock + inp.ms
    IN [counted EXCEPT
          !.clock = done,
          !.departures = IF shown THEN r2.departures ELSE << >>,
          !.lastApiCallCount = r2.lastApiCallCount,
          !.lastError = r2.lastError,
          !.lastDataFetch = IF shown THEN done ELSE s.lastDataFetch,
          !.lastCountdownUpdate = done,
          !.lastDisplayRefresh = done,
          !.lastAutoRefetch = done,
          !.runs = s.runs + 1,
          !.decayedSinceRun = 0,
          !.callsMade = s.callsMade + Len(r1.queried)
                           + (IF again THEN Len(r2.queried) ELSE 0),
          !.lastRun = [force |-> forceFetchAll,
                       start |-> s.clock,
                       finish |-> done,
                       liveBefore |-> s.departures,
                       rendered |-> IF shown THEN r2.departures ELSE << >>,
                       failedStops |-> Len(r1.failed)
                                         + (IF again THEN Len(r2.failed) ELSE 0),
                       second |-> again,
                       callsBefore |-> s.apiCallsToday,
                       ledgerBefore |-> s.prefs,
                       callsAfter |-> counted.apiCallsToday,
                       persisted |-> counted.prefs.calls,
                       writes |-> counted.ledgerWrites - s.ledgerWrites,
                       stopsQueried |-> Len(r1.queried)
                                          + (IF again THEN Len(r2.queried) ELSE 0),
                       success |-> r2.success,
                       reason |-> IF shown THEN ""
                                  ELSE FailureReason(s, r2.success, r2.lastError)]]

FetchTwice(s, forceFetchAll, inp) ==
    Once(NextbusFetchDepartures(s.currentDirection, inp.first, forceFetchAll, Clk(s)),
         LAMBDA r1 :
            Once(IF FetchAgain(r1, forceFetchAll)
                 THEN NextbusFetchDepartures(s.currentDirection, inp.second, TRUE, Clk(s))
                 ELSE r1,
                 LAMBDA r2 : CountAndDisplay(s, forceFetchAll, inp, r1, r2)))

fetchAndDisplayBuses(s, forceFetchAll, inp) ==
    Once(s, LAMBDA before :
       Once(inp, LAMBDA answers : FetchTwice(before, forceFetchAll, answers)))

NoRun ==
    [force |-> FALSE, start |-> 0, finish |-> 0, liveBefore |-> << >>, rendered |-> << >>,
     failedStops |-> 0,
     second |-> FALSE, callsBefore |-> 0, ledgerBefore |-> [calls |-> 0, lastReset |-> 0],
     callsAfter |-> 0,
     persisted |-> 0, writes |-> 0, stopsQueried |-> 0, success |-> FALSE, reason |-> ""]

(***************************************************************************)
(* DecayEngine: decrementDepartureCountdowns and handleDisplayTick         *)
(***************************************************************************)
(* faulty variant: one minute a call, whatever time has passed *)
DecrementedByOne(d, minutesElapsed) ==
    [d EXCEPT !.minutesUntilDeparture =
        IF d.minutesUntilDeparture - 1 < 0 THEN 0 ELSE d.minutesUntilDeparture - 1]

Decremented(d, minutesElapsed) ==
    [d EXCEPT !.minutesUntilDeparture =
        IF d.minutesUntilDeparture - minutesElapsed < 0 THEN 0
        ELSE d.minutesUntilDeparture - minutesElapsed]

(* faulty variant: keeps a departure one minute too long *)
DecayKeepLate(d) == LeaveIn(d) >= -1

DecayKeep(d) == LeaveIn(d) >= 0

(* faulty variant: no cooldown *)
CooldownIgnored(millisNow, s) == TRUE

CooldownElapsed(millisNow, s) ==
    /\ UGe(USub(millisNow, s.lastAutoRefetch), MIN_AUTO_REFETCH_INTERVAL_MS)
    /\ UGe(USub(millisNow, s.lastBusUpdate), MIN_AUTO_REFETCH_INTERVAL_MS)

(* faulty variant: the empty display waits for the cooldown too *)
RefetchWhenEmptyCooled(s) ==
    s.wifiConnected /\ isActiveHours(s) /\ CooldownElapsed(s.clock, s)

RefetchWhenEmpty(s) == s.wifiConnected /\ isActiveHours(s)

RefetchWhenFew(s) == s.wifiConnected /\ isActiveHours(s)

NoTick ==
    [decayed |-> FALSE, minutesElapsed |-> 0, before |-> 0, removed |-> 0, remaining |-> 0,
     wifi |-> FALSE, active |-> FALSE, sinceRun |-> 0, refetched |-> FALSE,
     forced |-> FALSE]

(* faulty variant: the entries kept come out last first *)
DecayReversed(deps, minutesElapsed) ==
    LET kept == SelectSeq([i \in 1..Len(deps) |-> Decremented(deps[i], minutesElapsed)],
                          DecayKeep)
    IN [i \in 1..Len(kept) |-> kept[Len(kept) + 1 - i]]

Decay(deps, minutesElapsed) ==
    SelectSeq([i \in 1..Len(deps) |-> Decremented(deps[i], minutesElapsed)], DecayKeep)

(* faulty variant: a refetch whenever the device is connected and awake *)
AutoRefetchAnyTick(s1, removed, millisNow) == RefetchWhenEmpty(s1)

AutoRefetch(s1, removed, millisNow) ==
    /\ removed > 0
    /\ IF Len(s1.departures) = 0 THEN RefetchWhenEmpty(s1)
       ELSE /\ Len(s1.departures) < 3
            /\ RefetchWhenFew(s1)
            /\ CooldownElapsed(millisNow, s1)

TickRecord(s, s2, minutesElapsed, kept) ==
    [decayed |-> TRUE, minutesElapsed |-> minutesElapsed,
     before |-> Len(s.departures), removed |-> Len(s.departures) - Len(kept),
     remaining |-> Len(kept),
     wifi |-> s.wifiConnected, active |-> isActiveHours(s),
     sinceRun |-> s.clock - s.lastRun.start,
     refetched |-> s2.runs # s.runs,
     forced |-> s2.runs # s.runs /\ s2.lastRun.force]

decrementDepartureCountdowns(s, minutesElapsed, inp) ==
    IF minutesElapsed = 0 THEN s
    ELSE Once(Decay(s.departures, minutesElapsed), LAMBDA kept :
            Once([s EXCEPT !.departures = kept,
                           !.decayedSinceRun = s.decayedSinceRun + minutesElapsed],
                 LAMBDA s1 :
               Once(IF AutoRefetch(s1, Len(s.departures) - Len(kept), s.clock)
                    THEN [fetchAndDisplayBuses(s1, TRUE, inp) EXCEPT
                             !.lastAutoRefetch = s.clock]
                    ELSE s1,
                    LAMBDA s2 :
                       [s2 EXCEPT !.lastTick = TickRecord(s, s2, minutesElapsed, kept)])))

(* the countdown step of a tick, s1.lastCountdownUpdate being set *)
CountdownStep(s1, tickNow, inp) ==
    LET elapsed == USub(tickNow, s1.lastCountdownUpdate)
        minutesElapsed == UDivMinute(elapsed)
    IN IF UGe(elapsed, 60000)
       THEN Once(decrementDepartureCountdowns(s1, minutesElapsed, inp), LAMBDA d :
               [d EXCEPT !.lastCountdownUpdate =
                   UAdd(d.lastCountdownUpdate, UMulMinute(minutesElapsed))])
       ELSE s1

handleDisplayTick(s0, tickNow, inp) ==
    Once([s0 EXCEPT !.lastTick = NoTick], LAMBDA s :
       IF s.sleepModeActive
       THEN IF UGe(USub(tickNow, s.lastDisplayRefresh), 60000)
            THEN [s EXCEPT !.lastDisplayRefresh = tickNow]
            ELSE s
       ELSE IF Len(s.departures) = 0 THEN s
       ELSE IF ULt(USub(tickNow, s.lastDisplayRefresh), DISPLAY_PARTIAL_REFRESH_INTERVAL) THEN s
       ELSE [CountdownStep(IF s.lastCountdownUpdate = 0
                           THEN [s EXCEPT !.lastCountdownUpdate = tickNow] ELSE s,
                           tickNow, inp)
             EXCEPT !.lastDisplayRefresh = tickNow])

(***************************************************************************)
(* What the environment supplies                                           *)
(***************************************************************************)
BootMs == 5000
FetchMs == 3000
LoopWorkMs == 20
Steps == {60000, 180000}

Ok == << HTTP_CODE_OK, HTTP_CODE_OK, HTTP_CODE_OK >>
RetryOk == << 500, HTTP_CODE_OK, HTTP_CODE_OK >>
Fail500 == << 500, 500, 500 >>
Fail401 == << HTTP_CODE_UNAUTHORIZED, HTTP_CODE_UNAUTHORIZED, HTTP_CODE_UNAUTHORIZED >>

GoodDestination(direction) ==
    IF direction = TO_CHELTENHAM THEN cheltenhamDestinations[1] ELSE churchdownDestinations[1]

(* a visit "in off minutes": times of day are taken from the local clock *)
VisitAt(route, aimedOff, expectedOff, direction, nowMinutes) ==
    [route |-> route,
     dest |-> GoodDestination(direction),
     aimed |-> IF aimedOff = NoTime THEN NoTime ELSE (nowMinutes + aimedOff) % (24 * 60),
     expected |-> IF expectedOff = NoTime THEN NoTime
                  ELSE (nowMinutes + expectedOff) % (24 * 60)]

Resolve(template, direction, nowMinutes) ==
    [i \in 1..Len(StopsOf(direction)) |->
        [codes |-> template[i].codes,
         visits |-> [k \in 1..Len(template[i].visits) |->
                        LET v == template[i].visits[k]
                        IN VisitAt(v[1], v[2], v[3], direction, nowMinutes)]]]

SingleLeavingNow ==
    << [codes |-> Ok, visits |-> << << "96", 10, NoTime >> >>],
       [codes |-> RetryOk, visits |-> << >>],
       [codes |-> Ok, visits |-> << >>] >>

ThreeBuses ==
    << [codes |-> Ok, visits |-> << << "97", 25, 26 >>, << "94", 14, NoTime >> >>],
       [codes |-> Ok, visits |-> << << "95", 50, NoTime >> >>],
       [codes |-> Fail500, visits |-> << >>] >>

TwoBuses ==
    << [codes |-> Fail401, visits |-> << >>],
       [codes |-> Ok, visits |-> << << "94", 21, NoTime >>, << "94", 22, NoTime >>,
                                    << "96", 5, NoTime >>, << "98", 45, 43 >> >>],
       [codes |-> Ok, visits |-> << >>] >>

AllFail ==
    << [codes |-> Fail500, visits |-> << >>],
       [codes |-> Fail500, visits |-> << >>],
       [codes |-> Fail500, visits |-> << >>] >>

RunTemplates ==
    { << SingleLeavingNow, SingleLeavingNow >>, << ThreeBuses, ThreeBuses >>,
      << TwoBuses, TwoBuses >>, << AllFail, AllFail >> }

(* the stops are asked only when a run is made: a handler that makes no run *)
(* reads none of the answers                                               *)
AnyTemplate == << AllFail, AllFail >>
TemplateRead(after, t) == after.runs # runs \/ t = AnyTemplate

RunInput(t, direction, nowMinutes) ==
    [first |-> Resolve(t[1], direction, nowMinutes),
     second |-> Resolve(t[2], direction, nowMinutes),
     ms |-> FetchMs]

(* the local time at boot and the quota record found at boot *)
Noon == 12 * 60 * MsPerMinute
EndOfWindow == ACTIVE_HOURS_END * 60 * MsPerMinute
Midnight == 24 * 60 * MsPerMinute
StartOfWindow == ACTIVE_HOURS_START * 60 * MsPerMinute
(* prefs is the record found at boot, resetOn the day (0 is the day of the   *)
(* boot) of the reset that wrote it                                         *)
Boots ==
    { [wall |-> Noon, prefs |-> [calls |-> 0, lastReset |-> 0], resetOn |-> << >>],
      [wall |-> Noon, prefs |-> [calls |-> API_DAILY_LIMIT - 4, lastReset |-> MdayOf(0)],
       resetOn |-> << 0 >>],
      [wall |-> EndOfWindow - (BootMs + FetchMs + 60000 + (LoopWorkMs \div 2)),
       prefs |-> [calls |-> 4, lastReset |-> MdayOf(0)], resetOn |-> << 0 >>],
      [wall |-> Midnight - 183000, prefs |-> [calls |-> 998, lastReset |-> MdayOf(0)],
       resetOn |-> << 0 >>],
      [wall |-> StartOfWindow - 123000,
       prefs |-> [calls |-> API_DAILY_LIMIT, lastReset |-> MdayOf(-1)],
       resetOn |-> << -1 >>],
      [wall |-> Noon, prefs |-> [calls |-> 900, lastReset |-> MdayOf(-DaysInMonth)],
       resetOn |-> << -DaysInMonth >>] }
Commands == { "refresh", "toggle_direction", "invert_colors" }

(***************************************************************************)
(* setup() and the phases of loop()                                        *)
(***************************************************************************)
OtherDirection(d) == IF d = TO_CHELTENHAM THEN TO_CHURCHDOWN ELSE TO_CHELTENHAM

handleMqttCommand(s, command, t) ==
    IF command = "refresh"
    THEN fetchAndDisplayBuses(s, FALSE, RunInput(t, s.currentDirection, NowMinutes(s)))
    ELSE IF command = "toggle_direction"
    THEN LET newDir == OtherDirection(s.currentDirection)
         IN fetchAndDisplayBuses([s EXCEPT !.currentDirection = newDir], FALSE,
                                 RunInput(t, newDir, NowMinutes(s)))
    ELSE IF command \in {"invert_colors", "dark_mode"}
    THEN [s EXCEPT !.lastDisplayRefresh = s.clock,
                   !.lastBusUpdate = s.clock,
                   !.lastCountdownUpdate = s.clock]
    ELSE s

(* setup() from the first fetch on, or the sleep screen out of hours *)
initialFetch(s2, t) ==
    IF isActiveHours(s2)
    THEN fetchAndDisplayBuses(s2, FALSE, RunInput(t, s2.currentDirection, NowMinutes(s2)))
    ELSE [s2 EXCEPT !.lastCountdownUpdate = s2.clock,
                    !.lastDisplayRefresh = s2.clock,
                    !.sleepModeActive = TRUE]

setup(s, wifi, sync, t) ==
    Once([s EXCEPT !.clock = s.clock + BootMs, !.wifiConnected = wifi,
                   !.synced = (sync = "early")],
         LAMBDA s0 :
            IF ~wifi THEN [s0 EXCEPT !.pc = "portal"]
            ELSE Once([resetApiCounterIfNewDay(loadApiCounter(s0)) EXCEPT
                          !.synced = (sync # "never")],
                      LAMBDA s2 : [initialFetch(s2, t) EXCEPT !.pc = "loop"]))

(* loop(), from its start to the end of mqtt.loop() *)
(* the sleep and wake transitions at the start of loop() *)
sleepTransition(s1) ==
    IF ~s1.activeHours /\ ~s1.sleepModeActive
    THEN [s1 EXCEPT !.departures = << >>,
                    !.lastCountdownUpdate = s1.now,
                    !.lastDisplayRefresh = s1.now,
                    !.sleepModeActive = TRUE]
    ELSE IF s1.activeHours /\ s1.sleepModeActive
    THEN [s1 EXCEPT !.sleepModeActive = FALSE, !.lastBusUpdate = 0, !.lastWake = s1.now]
    ELSE s1

mqttLoop(s2, command, t) ==
    IF s2.wifiConnected /\ command # "none"
    THEN [handleMqttCommand(s2, command, t) EXCEPT !.cmds = s2.cmds + 1]
    ELSE s2

loopBegin(s, dt, sync, command, t) ==
    Once([s EXCEPT !.clock = s.clock + dt, !.synced = s.synced \/ sync], LAMBDA s0 :
       Once(sleepTransition([s0 EXCEPT !.now = s0.clock, !.activeHours = isActiveHours(s0)]),
            LAMBDA s2 : [mqttLoop(s2, command, t) EXCEPT !.pc = "poll"]))

(* loop(), the ledger check and the scheduled poll *)
(* the ledger check loop() makes once a minute *)
ledgerCheck(s) ==
    IF UGe(USub(s.now, s.lastApiCountCheck), 60000)
    THEN [resetApiCounterIfNewDay(s) EXCEPT !.lastApiCountCheck = s.now]
    ELSE s

(* faulty variant: no scheduled run once the daily limit is reached *)
scheduledPollCapped(c, t) ==
    IF c.state.wifiConnected /\ c.state.activeHours
       /\ c.state.apiCallsToday < API_DAILY_LIMIT
       /\ UGe(USub(c.state.now, c.state.lastBusUpdate), c.interval)
    THEN [fetchAndDisplayBuses(c.state, FALSE,
              RunInput(t, c.state.currentDirection, NowMinutes(c.state)))
          EXCEPT !.lastBusUpdate = c.state.now]
    ELSE c.state

(* faulty variant: a scheduled run in every loop, whatever the interval *)
scheduledPollEager(c, t) ==
    IF c.state.wifiConnected /\ c.state.activeHours
    THEN [fetchAndDisplayBuses(c.state, FALSE,
              RunInput(t, c.state.currentDirection, NowMinutes(c.state)))
          EXCEPT !.lastBusUpdate = c.state.now]
    ELSE c.state

(* the scheduled poll, c being what calculateOptimalRefreshInterval returned *)
scheduledPoll(c, t) ==
    IF c.state.wifiConnected /\ c.state.activeHours
       /\ UGe(USub(c.state.now, c.state.lastBusUpdate), c.interval)
    THEN [fetchAndDisplayBuses(c.state, FALSE,
              RunInput(t, c.state.currentDirection, NowMinutes(c.state)))
          EXCEPT !.lastBusUpdate = c.state.now]
    ELSE c.state

loopPoll(s, t) ==
    Once(calculateOptimalRefreshInterval(ledgerCheck(s)), LAMBDA c :
       Once(scheduledPoll(c, t), LAMBDA s3 :
          [s3 EXCEPT !.clock = s3.clock + LoopWorkMs, !.pc = "tick"]))

(* loop(), handleDisplayTick(now) with the now taken at the start of loop() *)
loopTick(s, t) ==
    [handleDisplayTick(s, s.now, RunInput(t, s.currentDirection, NowMinutes(s)))
     EXCEPT !.pc = "loop", !.loops = s.loops + 1]

(***************************************************************************)
(* The control loop as a state machine                                     *)
(***************************************************************************)
NoAggIn == [provider |-> "none"]
NoAggOut == [done |-> FALSE]
NoPollIn == [callsToday |-> 0]
NoPollOut == [done |-> FALSE]
NoDecayIn == [minutesElapsed |-> 0]
NoDecayOut == [done |-> FALSE]
NoNormIn == [provider |-> "none"]
NoNormOut == [done |-> FALSE]

EngineStart ==
    /\ pc = "boot" /\ clock = 0 /\ synced = FALSE /\ now = 0 /\ activeHours = FALSE
    /\ wifiConnected = FALSE /\ sleepModeActive = FALSE
    /\ currentDirection = TO_CHELTENHAM
    /\ departures = << >> /\ lastApiCallCount = 0 /\ lastError = ""
    /\ apiCallsToday = 0 /\ lastApiResetDay = 0
    /\ lastBusUpdate = 0 /\ lastDisplayRefresh = 0 /\ lastAutoRefetch = 0
    /\ lastCountdownUpdate = 0 /\ lastDataFetch = 0 /\ lastApiCountCheck = 0
    /\ loops = 0 /\ cmds = 0 /\ runs = 0 /\ lastRun = NoRun /\ ledgerWrites = 0
    /\ lastCheckDay = -1 /\ lastTick = NoTick /\ decayedSinceRun = 0 /\ callsMade = 0
    /\ lastWake = -1

Init ==
    /\ EngineStart /\ crashBudget = 0
    /\ \E b \in Boots : bootWall = b.wall /\ prefs = b.prefs /\ resetDays = b.resetOn
    /\ aggIn = NoAggIn /\ aggOut = NoAggOut
    /\ pollIn = NoPollIn /\ pollOut = NoPollOut
    /\ decayIn = NoDecayIn /\ decayOut = NoDecayOut
    /\ normIn = NoNormIn /\ normOut = NoNormOut

Setup ==
    /\ pc = "boot"
    /\ \E wifi \in BOOLEAN, sync \in {"early", "late", "never"} :
          \E t \in RunTemplates :
             \E r \in {setup(State, wifi, sync, t)} : TemplateRead(r, t) /\ Commit(r)
    /\ UNCHANGED << aggIn, aggOut, pollIn, pollOut, decayIn, decayOut, normIn, normOut >>

LoopBegin ==
    /\ pc = "loop"
    /\ loops < MaxLoops
    /\ \E dt \in Steps, sync \in {synced, TRUE},
          command \in {"none"} \cup (IF cmds < MaxCmds THEN Commands ELSE {}) :
          \E t \in RunTemplates :
             \E r \in {loopBegin(State, dt, sync, command, t)} :
                TemplateRead(r, t) /\ Commit(r)
    /\ UNCHANGED << aggIn, aggOut, pollIn, pollOut, decayIn, decayOut, normIn, normOut >>

LoopPoll ==
    /\ pc = "poll"
    /\ \E t \in RunTemplates :
          \E r \in {loopPoll(State, t)} : TemplateRead(r, t) /\ Commit(r)
    /\ UNCHANGED << aggIn, aggOut, pollIn, pollOut, decayIn, decayOut, normIn, normOut >>

LoopTick ==
    /\ pc = "tick"
    /\ \E t \in RunTemplates :
          \E r \in {loopTick(State, t)} : TemplateRead(r, t) /\ Commit(r)
    /\ UNCHANGED << aggIn, aggOut, pollIn, pollOut, decayIn, decayOut, normIn, normOut >>

Next == Setup \/ LoopBegin \/ LoopPoll \/ LoopTick

Spec == Init /\ [][Next]_vars

(***************************************************************************)
(* The control loop over hours, the quota used up: loop() is called again  *)
(* and again, twenty minutes apart in the model                             *)
(***************************************************************************)
LiveStep == 20 * MsPerMinute
LiveSteps == { LiveStep }

LiveBoots ==
    { [wall |-> Noon, prefs |-> [calls |-> API_DAILY_LIMIT, lastReset |-> MdayOf(0)],
       resetOn |-> << 0 >>],
      [wall |-> Noon, prefs |-> [calls |-> API_DAILY_LIMIT - 7, lastReset |-> MdayOf(0)],
       resetOn |-> << 0 >>] }

InitLive ==
    /\ EngineStart /\ crashBudget = 0
    /\ \E b \in LiveBoots : bootWall = b.wall /\ prefs = b.prefs /\ resetDays = b.resetOn
    /\ aggIn = NoAggIn /\ aggOut = NoAggOut
    /\ pollIn = NoPollIn /\ pollOut = NoPollOut
    /\ decayIn = NoDecayIn /\ decayOut = NoDecayOut
    /\ normIn = NoNormIn /\ normOut = NoNormOut

LoopBeginLive ==
    /\ pc = "loop"
    /\ loops < MaxLiveLoops
    /\ \E dt \in LiveSteps, sync \in {synced, TRUE} :
          \E t \in RunTemplates :
             \E r \in {loopBegin(State, dt, sync, "none", t)} :
                TemplateRead(r, t) /\ Commit(r)
    /\ UNCHANGED << aggIn, aggOut, pollIn, pollOut, decayIn, decayOut, normIn, normOut >>

NextLive == Setup \/ LoopBeginLive \/ LoopPoll \/ LoopTick

SpecLive == InitLive /\ [][NextLive]_vars /\ WF_vars(NextLive)

(***************************************************************************)
(* The Normalizer alone: one departure time handed to parseDepartureTime,  *)
(* and what the callers make of the minutes it returns                     *)
(***************************************************************************)
NormTimes ==
    { 0, 1, 59, 60, 61, 119, 120, 600, 659, 660, 661, 719, 720, 721, 779, 780, 781,
      1379, 1380, 1381, 1439 }

(* the Nextbus provider sends ISO 8601 timestamps, parseDepartureTime takes *)
(* plain HH:MM strings as well; the Transport provider sends HH:MM          *)
NormFormats == { << "nextbus", "iso" >>, << "nextbus", "hhmm" >>, << "transport", "hhmm" >> }

NormInputs ==
    { [provider |-> f[1], format |-> f[2], synced |-> y, dep |-> d, nowMinutes |-> n,
       stop |-> k] :
        f \in NormFormats, y \in BOOLEAN, d \in NormTimes, n \in NormTimes,
        k \in 1..Len(cheltenhamStops) }

(* the entry the parse loop appends for the minutes parseDepartureTime gave, *)
(* skipped when they are negative, kept when the catchable filter keeps it   *)
NormEntry(in, parsed) ==
    [done |-> TRUE,
     minutesUntil |-> parsed.minutesUntil,
     displayTime |-> parsed.displayTime,
     skipped |-> parsed.minutesUntil < 0,
     kept |-> /\ ~(parsed.minutesUntil < 0)
              /\ IsCatchable([minutesUntilDeparture |-> parsed.minutesUntil,
                              walkingTimeMinutes |->
                                 cheltenhamStops[in.stop].walkingTimeMinutes])]

InitNorm ==
    /\ EngineStart /\ crashBudget = 0
    /\ bootWall = Noon /\ prefs = [calls |-> 0, lastReset |-> 0] /\ resetDays = << >>
    /\ aggIn = NoAggIn /\ aggOut = NoAggOut
    /\ pollIn = NoPollIn /\ pollOut = NoPollOut
    /\ decayIn = NoDecayIn /\ decayOut = NoDecayOut
    /\ normIn \in NormInputs /\ normOut = NoNormOut

NextbusNormalize ==
    /\ normIn.provider = "nextbus"
    /\ ~normOut.done
    /\ normOut' = NormEntry(normIn,
                     IF normIn.format = "iso"
                     THEN NextbusParseDepartureTime(normIn.dep, normIn.synced,
                                                    normIn.nowMinutes)
                     ELSE NextbusParseSimpleTime(normIn.dep, normIn.synced,
                                                 normIn.nowMinutes))
    /\ UNCHANGED << engineVars, aggIn, aggOut, pollIn, pollOut, decayIn, decayOut, normIn >>

TransportNormalize ==
    /\ normIn.provider = "transport"
    /\ ~normOut.done
    /\ normOut' = NormEntry(normIn,
                     TransportParseDepartureTime(normIn.dep, NoTime, normIn.synced,
                                                 normIn.nowMinutes))
    /\ UNCHANGED << engineVars, aggIn, aggOut, pollIn, pollOut, decayIn, decayOut, normIn >>

NextNorm == NextbusNormalize \/ TransportNormalize

SpecNorm == InitNorm /\ [][NextNorm]_vars

(***************************************************************************)
(* One visit with a scheduled and an estimated time: the entry's status    *)
(***************************************************************************)
StatusNows == { 2, 12 * 60, 23 * 60 + 50 }
AimedOffsets == { -4, 0, 5, 12, 30 }
TrueDelays == -6 .. 8

(* the scheduled time is aimedOff minutes from now, the estimate delay       *)
(* minutes after it; both are times of day                                   *)
StatusInputs ==
    { [provider |-> p, synced |-> TRUE, nowMinutes |-> n,
       aimed |-> (n + a + 24 * 60) % (24 * 60),
       expected |-> (n + a + d + 24 * 60) % (24 * 60),
       delay |-> d] :
        p \in { "nextbus", "transport" }, n \in StatusNows, a \in AimedOffsets,
        d \in TrueDelays }

StatusVisit ==
    [route |-> "94", dest |-> GoodDestination(TO_CHELTENHAM),
     aimed |-> normIn.aimed, expected |-> normIn.expected]

InitStatus ==
    /\ EngineStart /\ crashBudget = 0
    /\ bootWall = Noon /\ prefs = [calls |-> 0, lastReset |-> 0] /\ resetDays = << >>
    /\ aggIn = NoAggIn /\ aggOut = NoAggOut
    /\ pollIn = NoPollIn /\ pollOut = NoPollOut
    /\ decayIn = NoDecayIn /\ decayOut = NoDecayOut
    /\ normIn \in StatusInputs /\ normOut = NoNormOut

NextbusStatus ==
    /\ normIn.provider = "nextbus"
    /\ ~normOut.done
    /\ normOut' = [done |-> TRUE,
                   visit |-> NextbusVisit(StatusVisit, cheltenhamStops[1], TO_CHELTENHAM,
                                          normIn.synced, normIn.nowMinutes)]
    /\ UNCHANGED << engineVars, aggIn, aggOut, pollIn, pollOut, decayIn, decayOut, normIn >>

TransportStatus ==
    /\ normIn.provider = "transport"
    /\ ~normOut.done
    /\ normOut' = [done |-> TRUE,
                   visit |-> TransportVisit(StatusVisit, cheltenhamStops[1], TO_CHELTENHAM,
                                            normIn.synced, normIn.nowMinutes)]
    /\ UNCHANGED << engineVars, aggIn, aggOut, pollIn, pollOut, decayIn, decayOut, normIn >>

NextStatus == NextbusStatus \/ TransportStatus

SpecStatus == InitStatus /\ [][NextStatus]_vars

(***************************************************************************)
(* The control loop with abrupt restarts (power loss, watchdog): the RAM   *)
(* is back at its initial values, the persisted record and the wall clock  *)
(* are kept, and setup() runs again                                        *)
(***************************************************************************)
Reboot(s) ==
    [s EXCEPT !.pc = "boot", !.bootWall = s.bootWall + s.clock, !.clock = 0,
              !.synced = FALSE, !.now = 0, !.activeHours = FALSE,
              !.wifiConnected = FALSE, !.sleepModeActive = FALSE,
              !.currentDirection = TO_CHELTENHAM, !.departures = << >>,
              !.lastApiCallCount = 0, !.lastError = "",
              !.apiCallsToday = 0, !.lastApiResetDay = 0,
              !.lastBusUpdate = 0, !.lastDisplayRefresh = 0, !.lastAutoRefetch = 0,
              !.lastCountdownUpdate = 0, !.lastDataFetch = 0, !.lastApiCountCheck = 0,
              !.crashBudget = s.crashBudget - 1, !.lastWake = -1]

(* r being the state a handler ends in after a run: the state in which the *)
(* run's provider calls are made and incrementApiCallCount not yet called   *)
BeforeCount(r) ==
    [r EXCEPT !.prefs = r.lastRun.ledgerBefore,
              !.ledgerWrites = r.ledgerWrites - r.lastRun.writes]

(* the first boot of the day: the counter was reset and no call made yet *)
RestartBoots ==
    { [wall |-> Noon, prefs |-> [calls |-> 0, lastReset |-> MdayOf(0)], resetOn |-> << 0 >>] }

InitRestart ==
    /\ EngineStart /\ crashBudget = MaxRestarts
    /\ \E b \in RestartBoots :
          bootWall = b.wall /\ prefs = b.prefs /\ resetDays = b.resetOn
    /\ aggIn = NoAggIn /\ aggOut = NoAggOut
    /\ pollIn = NoPollIn /\ pollOut = NoPollOut
    /\ decayIn = NoDecayIn /\ decayOut = NoDecayOut
    /\ normIn = NoNormIn /\ normOut = NoNormOut

(* a restart between two phases of loop() *)
Restart ==
    /\ pc \in {"loop", "poll", "tick"}
    /\ crashBudget > 0
    /\ Commit(Reboot(State))
    /\ UNCHANGED << aggIn, aggOut, pollIn, pollOut, decayIn, decayOut, normIn, normOut >>

(* a restart inside setup()'s run, before incrementApiCallCount *)
RestartInSetupRun ==
    /\ pc = "boot"
    /\ crashBudget > 0
    /\ \E sync \in {"early", "late", "never"}, t \in RunTemplates :
          \E r \in {setup(State, TRUE, sync, t)} :
             r.runs # runs /\ Commit(Reboot(BeforeCount(r)))
    /\ UNCHANGED << aggIn, aggOut, pollIn, pollOut, decayIn, decayOut, normIn, normOut >>

(* a restart inside the scheduled run, before incrementApiCallCount *)
RestartInScheduledRun ==
    /\ pc = "poll"
    /\ crashBudget > 0
    /\ \E t \in RunTemplates :
          \E r \in {loopPoll(State, t)} :
             r.runs # runs /\ Commit(Reboot(BeforeCount(r)))
    /\ UNCHANGED << aggIn, aggOut, pollIn, pollOut, decayIn, decayOut, normIn, normOut >>

LoopBeginRestart ==
    /\ pc = "loop"
    /\ loops < MaxLoops
    /\ \E dt \in LiveSteps, sync \in {synced, TRUE} :
          \E t \in RunTemplates :
             \E r \in {loopBegin(State, dt, sync, "none", t)} :
                TemplateRead(r, t) /\ Commit(r)
    /\ UNCHANGED << aggIn, aggOut, pollIn, pollOut, decayIn, decayOut, normIn, normOut >>

NextRestart ==
    \/ Setup \/ LoopBeginRestart \/ LoopPoll \/ LoopTick
    \/ Restart \/ RestartInSetupRun \/ RestartInScheduledRun

SpecRestart == InitRestart /\ [][NextRestart]_vars

(***************************************************************************)
(* One Aggregator run on its own: fetchDepartures of either client applied *)
(* to what the stops answer                                                *)
(***************************************************************************)
AggNow == 12 * 60
AggClock == [synced |-> TRUE, nowMinutes |-> AggNow]

SeqsUpTo(S, n) == UNION { [1..k -> S] : k \in 0..n }

(* visits of the first stop: every list of at most MaxVisits of these *)
FirstStopVisits ==
    { << "94", 24, NoTime >>, << "94", 25, NoTime >>, << "94", 27, 26 >>,
      << "96", 25, NoTime >>, << "94", 5, NoTime >> }

SixBuses ==
    << << "94", 24, NoTime >>, << "96", 27, NoTime >>, << "97", 30, NoTime >>,
       << "98", 33, NoTime >>, << "95", 36, NoTime >>, << "94", 39, NoTime >> >>

(* one bus reported twice, a minute apart, and the same route later on *)
TwiceAndLater == << << "94", 14, NoTime >>, << "94", 15, NoTime >>, << "94", 40, NoTime >> >>

FirstStopAnswers ==
    { [codes |-> Ok, visits |-> v] : v \in SeqsUpTo(FirstStopVisits, MaxVisits) }
    \cup { [codes |-> Ok, visits |-> SixBuses],
           [codes |-> Ok, visits |-> TwiceAndLater],
           [codes |-> Ok, visits |-> SubSeq(SixBuses, 1, 5)],
           [codes |-> Fail500, visits |-> << >>] }

SecondStopAnswers ==
    { [codes |-> Ok, visits |-> << >>],
      [codes |-> RetryOk, visits |-> << << "94", 34, NoTime >>, << "94", 36, NoTime >> >>],
      [codes |-> Ok, visits |-> << << "95", 40, NoTime >>, << "96", 44, NoTime >>,
                                   << "97", 48, 50 >>, << "98", 19, NoTime >> >>],
      [codes |-> Ok, visits |-> << << "96", 19, NoTime >>, << "96", 20, NoTime >> >>],
      [codes |-> Fail401, visits |-> << >>] }

ThirdStopAnswers ==
    { [codes |-> Ok, visits |-> << >>],
      [codes |-> Ok, visits |-> << << "98", 26, NoTime >>, << "97", 49, NoTime >> >>],
      [codes |-> Fail500, visits |-> << >>] }

AggWorlds ==
    { << a, b, c >> : a \in FirstStopAnswers, b \in SecondStopAnswers, c \in ThirdStopAnswers }

AggInputs ==
    { [provider |-> p[1], forceFetchAll |-> p[2], direction |-> d, world |-> w] :
        p \in { << "nextbus", FALSE >>, << "nextbus", TRUE >>, << "transport", FALSE >> },
        d \in Direction, w \in AggWorlds }

InitAgg ==
    /\ EngineStart /\ crashBudget = 0
    /\ bootWall = Noon /\ prefs = [calls |-> 0, lastReset |-> 0] /\ resetDays = << >>
    /\ aggIn \in AggInputs /\ aggOut = NoAggOut
    /\ pollIn = NoPollIn /\ pollOut = NoPollOut
    /\ decayIn = NoDecayIn /\ decayOut = NoDecayOut
    /\ normIn = NoNormIn /\ normOut = NoNormOut

NextbusRun ==
    /\ aggIn.provider = "nextbus"
    /\ ~aggOut.done
    /\ aggOut' = [done |-> TRUE,
                  result |-> NextbusFetchDepartures(aggIn.direction,
                                 Resolve(aggIn.world, aggIn.direction, AggNow),
                                 aggIn.forceFetchAll, AggClock)]
    /\ UNCHANGED << engineVars, aggIn, pollIn, pollOut, decayIn, decayOut, normIn, normOut >>

TransportRun ==
    /\ aggIn.provider = "transport"
    /\ ~aggOut.done
    /\ aggOut' = [done |-> TRUE,
                  result |-> TransportFetchDepartures(aggIn.direction,
                                 Resolve(aggIn.world, aggIn.direction, AggNow), AggClock)]
    /\ UNCHANGED << engineVars, aggIn, pollIn, pollOut, decayIn, decayOut, normIn, normOut >>

NextAgg == NextbusRun \/ TransportRun

SpecAgg == InitAgg /\ [][NextAgg]_vars

(***************************************************************************)
(* One run over raw visits of any route and destination text               *)
(***************************************************************************)
FilterRoutes == { "94", "98", "99", "9", "" }

FilterTexts ==
    { <<"C","h","e","l","t","e","n","h","a","m"," ","S","p","a">>,
      <<"P","R","O","M","E","N","A","D","E">>,
      <<"G","l","o","u","c","e","s","t","e","r"," ","T","r","a","n","s","p","o","r","t"," ","H","u","b">>,
      <<"C","H","U","R","C","H","D","O","W","N">>,
      <<"T","e","w","k","e","s","b","u","r","y">>,
      <<"C","h","e","l">>,
      << >> }

(* a raw visit due in 30 minutes *)
RawVisits ==
    { [route |-> r, dest |-> d, aimed |-> AggNow + 30, expected |-> NoTime] :
         r \in FilterRoutes, d \in FilterTexts }

(* the first stop answers with up to two raw visits, the others with none *)
(* a stop's full answer: eight visits of the target routes, 26 to 47        *)
(* minutes away                                                              *)
EightVisits ==
    [k \in 1..8 |->
        [route |-> targetRoutes[((k - 1) % Len(targetRoutes)) + 1],
         dest |-> <<"C","h","e","l","t","e","n","h","a","m"," ","S","p","a">>,
         aimed |-> AggNow + 23 + 3 * k, expected |-> NoTime]]

(* the first stop answers with up to two raw visits, the others with none;  *)
(* or every stop answers in full                                            *)
FilterWorlds ==
    { << [codes |-> Ok, visits |-> v], [codes |-> Ok, visits |-> << >>],
         [codes |-> Ok, visits |-> << >>] >> : v \in SeqsUpTo(RawVisits, 2) }
    \cup { << [codes |-> Ok, visits |-> EightVisits], [codes |-> Ok, visits |-> EightVisits],
              [codes |-> Ok, visits |-> EightVisits] >> }

FilterInputs ==
    { [provider |-> p, forceFetchAll |-> FALSE, direction |-> d, world |-> w] :
        p \in { "nextbus", "transport" }, d \in Direction, w \in FilterWorlds }

InitFilter ==
    /\ EngineStart /\ crashBudget = 0
    /\ bootWall = Noon /\ prefs = [calls |-> 0, lastReset |-> 0] /\ resetDays = << >>
    /\ aggIn \in FilterInputs /\ aggOut = NoAggOut
    /\ pollIn = NoPollIn /\ pollOut = NoPollOut
    /\ decayIn = NoDecayIn /\ decayOut = NoDecayOut
    /\ normIn = NoNormIn /\ normOut = NoNormOut

NextbusFilterRun ==
    /\ aggIn.provider = "nextbus"
    /\ ~aggOut.done
    /\ aggOut' = [done |-> TRUE,
                  result |-> NextbusFetchDepartures(aggIn.direction,
                                 SubSeq(aggIn.world, 1, Len(StopsOf(aggIn.direction))),
                                 aggIn.forceFetchAll, AggClock)]
    /\ UNCHANGED << engineVars, aggIn, pollIn, pollOut, decayIn, decayOut, normIn, normOut >>

TransportFilterRun ==
    /\ aggIn.provider = "transport"
    /\ ~aggOut.done
    /\ aggOut' = [done |-> TRUE,
                  result |-> TransportFetchDepartures(aggIn.direction,
                                 SubSeq(aggIn.world, 1, Len(StopsOf(aggIn.direction))),
                                 AggClock)]
    /\ UNCHANGED << engineVars, aggIn, pollIn, pollOut, decayIn, decayOut, normIn, normOut >>

NextFilter == NextbusFilterRun \/ TransportFilterRun

SpecFilter == InitFilter /\ [][NextFilter]_vars

(***************************************************************************)
(* One poller decision on its own: calculateOptimalRefreshInterval         *)
(***************************************************************************)
PollToday == 15
PollCalls == {0, 500} \cup (680 .. (API_DAILY_LIMIT + MaxOverLimit))

PollInputs ==
    [callsToday : PollCalls, lastResetDay : {PollToday - 1, PollToday},
     synced : BOOLEAN, hour : 0..23, direction : Direction]

InitPoll ==
    /\ EngineStart /\ crashBudget = 0
    /\ bootWall = Noon /\ prefs = [calls |-> 0, lastReset |-> 0] /\ resetDays = << >>
    /\ aggIn = NoAggIn /\ aggOut = NoAggOut
    /\ pollIn \in PollInputs /\ pollOut = NoPollOut
    /\ decayIn = NoDecayIn /\ decayOut = NoDecayOut
    /\ normIn = NoNormIn /\ normOut = NoNormOut

PollRun ==
    /\ ~pollOut.done
    /\ LET callsToday == IF pollIn.synced /\ IsNewDay(PollToday, pollIn.lastResetDay)
                         THEN 0 ELSE pollIn.callsToday
       IN pollOut' = [done |-> TRUE,
                      callsToday |-> callsToday,
                      interval |-> OptimalRefreshInterval(callsToday, pollIn.synced,
                                                          pollIn.hour, pollIn.direction)]
    /\ UNCHANGED << engineVars, aggIn, aggOut, pollIn, decayIn, decayOut, normIn, normOut >>

NextPoll == PollRun

SpecPoll == InitPoll /\ [][NextPoll]_vars

(***************************************************************************)
(* One decay call on its own: decrementDepartureCountdowns                 *)
(***************************************************************************)
DecayEntry(stop, leaveIn) ==
    [busNumber |-> "94",
     stopName |-> stop.name,
     destination |-> GoodDestination(TO_CHELTENHAM),
     departureTime |-> (AggNow + stop.walkingTimeMinutes + leaveIn) % (24 * 60),
     minutesUntilDeparture |-> stop.walkingTimeMinutes + leaveIn,
     walkingTimeMinutes |-> stop.walkingTimeMinutes,
     isLive |-> FALSE,
     statusText |-> StatusText(FALSE, TRUE, 0)]

DecayEntries ==
    { DecayEntry(cheltenhamStops[i], l) : i \in 1..Len(cheltenhamStops), l \in 0..MaxLeaveIn }

(* a live set is what a run left: catchable, most urgent first *)
(* more entries than the display shows, the first of them about to go *)
FourLive ==
    << DecayEntry(cheltenhamStops[1], 0), DecayEntry(cheltenhamStops[2], 2),
       DecayEntry(cheltenhamStops[1], 3), DecayEntry(cheltenhamStops[3], 3) >>

LiveSets ==
    { q \in SeqsUpTo(DecayEntries, MaxLive) :
         \A i \in 1..(Len(q) - 1) : LeaveIn(q[i]) <= LeaveIn(q[i + 1]) }
    \cup { FourLive }

DecayInputs == [live : LiveSets, minutesElapsed : 0..MaxDecayMinutes, wifi : BOOLEAN]

DecayClock == 10 * MsPerMinute

DecayState ==
    [State EXCEPT !.departures = decayIn.live, !.wifiConnected = decayIn.wifi,
                  !.synced = TRUE, !.clock = DecayClock]

RECURSIVE DecayStepwise(_, _, _)
DecayStepwise(s, n, inp) ==
    IF n = 0 THEN s ELSE DecayStepwise(decrementDepartureCountdowns(s, 1, inp), n - 1, inp)

InitDecay ==
    /\ EngineStart /\ crashBudget = 0
    /\ bootWall = Noon /\ prefs = [calls |-> 0, lastReset |-> 0] /\ resetDays = << >>
    /\ aggIn = NoAggIn /\ aggOut = NoAggOut
    /\ pollIn = NoPollIn /\ pollOut = NoPollOut
    /\ decayIn \in DecayInputs /\ decayOut = NoDecayOut
    /\ normIn = NoNormIn /\ normOut = NoNormOut

DecayRun ==
    /\ ~decayOut.done
    /\ \E st \in {DecayState} :
          \E inp \in {RunInput(<< ThreeBuses, ThreeBuses >>, st.currentDirection,
                                NowMinutes(st))} :
             decayOut' = [done |-> TRUE,
                          before |-> st,
                          once |-> decrementDepartureCountdowns(st, decayIn.minutesElapsed, inp),
                          stepwise |-> DecayStepwise(st, decayIn.minutesElapsed, inp)]
    /\ UNCHANGED << engineVars, aggIn, aggOut, pollIn, pollOut, decayIn, normIn, normOut >>

NextDecay == DecayRun

SpecDecay == InitDecay /\ [][NextDecay]_vars

(***************************************************************************)
(* Properties                                                              *)
(***************************************************************************)
Catchable(d) == d.minutesUntilDeparture - d.walkingTimeMinutes >= 0

SameBus(d, e, tolerance) ==
    /\ d.busNumber = e.busNumber
    /\ d.stopName = e.stopName
    /\ d.minutesUntilDeparture - e.minutesUntilDeparture <= tolerance
    /\ e.minutesUntilDeparture - d.minutesUntilDeparture <= tolerance

ToleranceOf(provider) == IF provider = "nextbus" THEN 1 ELSE 2

(* C1: after any sequence of Aggregator runs and decay ticks every Departure *)
(* of the live set has minutesUntilDeparture - walkingTimeMinutes >= 0.      *)
C1_OnlyCatchableKept ==
    \A i \in 1..Len(departures) : Catchable(departures[i])

(* a decay tick has removed an entry and kept another *)
C1_Witness ==
    /\ lastTick.decayed /\ lastTick.removed > 0 /\ lastTick.remaining > 0
    /\ ~lastTick.refetched
    /\ Len(departures) = lastTick.remaining

(* C2: the list an Aggregator run returns holds no two Departures of the     *)
(* same route and stop whose minutesUntilDeparture differ by at most the     *)
(* tolerance (1 minute for Nextbus, 2 minutes for Transport).                *)
C2_NoDuplicatesKept ==
    aggOut.done =>
        \A i, j \in 1..Len(aggOut.result.departures) :
            i < j => ~SameBus(aggOut.result.departures[i], aggOut.result.departures[j],
                              ToleranceOf(aggIn.provider))

(* the stops answered two catchable visits of one bus within the tolerance, *)
(* and the run returned one of them                                          *)
C2_Witness ==
    /\ aggOut.done
    /\ aggIn.provider = "nextbus"
    /\ LET all == aggOut.result.gathered[Len(aggOut.result.gathered)]
       IN \E i, j \in 1..Len(all) :
             /\ i < j /\ SameBus(all[i], all[j], 1)
             /\ Catchable(all[i]) /\ Catchable(all[j])
             /\ \E k \in 1..Len(aggOut.result.departures) :
                   aggOut.result.departures[k] = all[i]
    /\ Len(aggOut.result.departures) >= 2

(* C3: calculateOptimalRefreshInterval returns a value within               *)
(* [300000, 3600000] for every count of calls made (at or above the limit    *)
(* too), every hour, direction and clock-sync state.                         *)
C3_IntervalInRange ==
    pollOut.done => pollOut.interval >= 300000 /\ pollOut.interval <= 3600000

(* an interval computed from the quota, strictly inside the range *)
C3_Witness ==
    /\ pollOut.done
    /\ pollIn.synced
    /\ pollOut.interval > 300000 /\ pollOut.interval < 3600000
    /\ pollOut.interval # BUS_DATA_REFRESH_INTERVAL_MS
    /\ pollOut.interval # 1800000

InActiveWindow(isSynced, hour) ==
    isSynced /\ hour >= ACTIVE_HOURS_START /\ hour < ACTIVE_HOURS_END

(* floor(remainingQuota / avgCallsPerRun) <= 0, with 1.5 calls per run for   *)
(* Cheltenham and 1 for Churchdown                                           *)
NoRunAffordable(remainingQuota, direction) ==
    IF direction = TO_CHELTENHAM THEN 2 * remainingQuota < 3 ELSE remainingQuota < 1

(* C6: inside the active window, when remainingQuota <= 0 or                 *)
(* floor(remainingQuota / avgCallsPerRun) <= 0, the interval is the 1-hour   *)
(* backoff and not the 10-minute default.                                    *)
C6_ExhaustedQuotaBacksOff ==
    (/\ pollOut.done
     /\ InActiveWindow(pollIn.synced, pollIn.hour)
     /\ \/ API_DAILY_LIMIT - pollOut.callsToday <= 0
        \/ NoRunAffordable(API_DAILY_LIMIT - pollOut.callsToday, pollIn.direction))
    => pollOut.interval = 3600000 /\ pollOut.interval # BUS_DATA_REFRESH_INTERVAL_MS

(* the limit is reached in the middle of the window *)
C6_Witness ==
    /\ pollOut.done
    /\ pollIn.synced /\ pollIn.hour = 12
    /\ pollIn.lastResetDay = PollToday
    /\ pollIn.callsToday = API_DAILY_LIMIT
    /\ pollOut.interval = 3600000

DistinctCatchable(deps, tolerance) ==
    Cardinality({j \in 1..Len(deps) :
        /\ Catchable(deps[j])
        /\ ~\E k \in 1..(j - 1) : Catchable(deps[k]) /\ SameBus(deps[j], deps[k], tolerance)})

EarlyStopThreshold == TARGET_DEPARTURES

(* C7: with forceFetchAll = false, once the candidates gathered after a stop *)
(* hold at least the early-stop threshold (5) of catchable, pairwise         *)
(* distinct Departures and more stops remain, no further stop is queried.    *)
C7_EarlyStop ==
    (aggOut.done /\ ~aggIn.forceFetchAll) =>
        \A i \in 1..Len(aggOut.result.gathered) :
            (/\ i < Len(StopsOf(aggIn.direction))
             /\ DistinctCatchable(aggOut.result.gathered[i], ToleranceOf(aggIn.provider))
                   >= EarlyStopThreshold)
            => aggOut.result.lastApiCallCount = i

DecayedToEmpty == lastTick.decayed /\ lastTick.removed > 0 /\ lastTick.remaining = 0

DecayedToFew ==
    lastTick.decayed /\ lastTick.removed > 0 /\ lastTick.remaining \in {1, 2}

(* C4: a decay tick that removes entries and leaves no catchable Departure   *)
(* triggers an Aggregator re-run with forceFetchAll = true in that same      *)
(* tick, whatever the cooldown state.                                        *)
C4_EmptyRefetchesAtOnce ==
    DecayedToEmpty => lastTick.refetched /\ lastTick.forced

(* C4 as the code has it: the re-run is made in that same tick, whatever the *)
(* cooldown state, exactly when the device is connected and the local time   *)
(* read in the tick is inside the active window (or not known).              *)
C4_EmptyRefetchesWhenAwake ==
    DecayedToEmpty =>
        /\ lastTick.refetched <=> (lastTick.wifi /\ lastTick.active)
        /\ lastTick.refetched => lastTick.forced

(* one minute after a run its only departure is gone, and the tick runs the *)
(* Aggregator again, four minutes before the cooldown ends                   *)
C4_Witness ==
    /\ DecayedToEmpty
    /\ lastTick.minutesElapsed = 1 /\ lastTick.before = 1
    /\ lastTick.sinceRun < MIN_AUTO_REFETCH_INTERVAL_MS
    /\ lastTick.refetched /\ lastTick.forced
    /\ lastRun.force /\ lastRun.stopsQueried > 0

(* C5: a decay tick that removes entries and leaves one or two re-runs the   *)
(* Aggregator only if five minutes have passed since the last run or         *)
(* auto-refetch began; otherwise the tick makes no provider call.            *)
C5_FewRefetchAfterCooldown ==
    DecayedToFew =>
        /\ lastTick.refetched => lastTick.sinceRun >= MIN_AUTO_REFETCH_INTERVAL_MS
        /\ lastTick.sinceRun < MIN_AUTO_REFETCH_INTERVAL_MS => ~lastTick.refetched

(* six minutes after a run, three departures decay to two and the tick runs *)
(* the Aggregator again                                                      *)
C5_Witness ==
    /\ DecayedToFew
    /\ lastTick.before = 3 /\ lastTick.remaining = 2
    /\ lastTick.sinceRun >= MIN_AUTO_REFETCH_INTERVAL_MS
    /\ lastTick.refetched /\ lastRun.force

(* C8: each fetchAndDisplayBuses raises apiCallsToday by the number of       *)
(* provider calls of the run, one per stop queried whether it answered or    *)
(* not, and the raise is applied and persisted once.                         *)
C8_RunCountsItsCalls ==
    runs > 0 =>
        /\ lastRun.callsAfter = lastRun.callsBefore + lastRun.stopsQueried
        /\ lastRun.writes = 1
        /\ lastRun.persisted = lastRun.callsAfter

(* a run of two fetchDepartures calls over three stops, one of which fails *)
C8_Witness ==
    /\ runs > 0
    /\ lastRun.second
    /\ lastRun.stopsQueried = 6
    /\ lastError # ""
    /\ apiCallsToday = lastRun.callsAfter
    /\ prefs.calls = apiCallsToday

Last(q) == q[Len(q)]

(* C9: within one local calendar day apiCallsToday never decreases, and it   *)
(* is reset to 0 once per local calendar day, at the first ledger check      *)
(* after the day changed: never zero times, never twice on a day.            *)
C9_OneResetPerDay ==
    [][ /\ apiCallsToday' < apiCallsToday =>
              /\ Len(resetDays') > Len(resetDays)
              /\ \A i \in 1..Len(resetDays) : resetDays[i] # Last(resetDays')
        /\ \A i, j \in 1..Len(resetDays') : i # j => resetDays'[i] # resetDays'[j]
        /\ lastCheckDay' # -1 => \E i \in 1..Len(resetDays') : resetDays'[i] = lastCheckDay'
      ]_vars

(* C10: resetApiCounterIfNewDay is idempotent: a second call on the same     *)
(* local day leaves apiCallsToday, lastApiResetDay and the persisted record  *)
(* unchanged.                                                                *)
C10_ResetIdempotent ==
    (synced /\ lastCheckDay = DayIndex(State)) =>
        LET again == resetApiCounterIfNewDay(State)
        IN /\ again.apiCallsToday = apiCallsToday
           /\ again.lastApiResetDay = lastApiResetDay
           /\ again.prefs = prefs
           /\ again.ledgerWrites = ledgerWrites

(* the counter was reset today, calls were counted since, and the loop has  *)
(* made its ledger check again                                               *)
C10_Witness ==
    /\ pc = "tick"
    /\ synced /\ lastCheckDay = DayIndex(State)
    /\ Len(resetDays) > 0 /\ Last(resetDays) = DayIndex(State)
    /\ lastApiCountCheck = now
    /\ apiCallsToday > 0

(* C12: a completed run sets the countdown clock to its completion time, so *)
(* that right after a decay tick the minutes taken from the live set since   *)
(* the last run are floor(milliseconds since that run / 60000), also when    *)
(* the run was made from inside a decay tick.                                *)
C12_CountdownFollowsRun ==
    (pc = "loop" /\ lastTick.decayed /\ runs > 0) =>
        decayedSinceRun = (clock - lastRun.finish) \div MsPerMinute

(* the candidates of a run, in the order the first sort leaves them *)
SortedCandidates == SortByLeaveIn(Last(aggOut.result.gathered))

RECURSIVE FirstOccurrences(_, _, _, _)
FirstOccurrences(S, i, kept, tolerance) ==
    IF i > Len(S) THEN kept
    ELSE FirstOccurrences(S, i + 1,
            IF \E j \in 1..Len(kept) : SameBus(S[i], kept[j], tolerance) THEN kept
            ELSE Append(kept, S[i]),
            tolerance)

HasEntry(q, d) == \E k \in 1..Len(q) : q[k] = d

(* C13: deduplication drops a candidate only if a candidate kept before it   *)
(* has the same route, the same stop and a time within the tolerance, and    *)
(* keeps the first occurrence after sorting; a candidate that differs from   *)
(* every other in route or stop is kept.                                     *)
C13_DedupKeepsFirst ==
    aggOut.done =>
        LET S == SortedCandidates
            U == aggOut.result.unique
            tol == ToleranceOf(aggIn.provider)
        IN /\ U = FirstOccurrences(S, 1, << >>, tol)
           /\ \A i \in 1..Len(S) :
                 ~HasEntry(U, S[i]) =>
                     \E j \in 1..(i - 1) : HasEntry(U, S[j]) /\ SameBus(S[i], S[j], tol)
           /\ \A i \in 1..Len(S) :
                 (\A j \in 1..Len(S) :
                     j # i => (S[j].busNumber # S[i].busNumber
                                 \/ S[j].stopName # S[i].stopName))
                 => HasEntry(U, S[i])

EntryAt(q, route, stopName, minutes) ==
    \E k \in 1..Len(q) :
       /\ q[k].busNumber = route /\ q[k].stopName = stopName
       /\ q[k].minutesUntilDeparture = minutes

(* route 94 at 14, 15 and 40 minutes from one stop: 14 and 40 are kept *)
C13_Witness ==
    /\ aggOut.done
    /\ aggIn.provider = "nextbus"
    /\ LET stop == StopsOf(aggIn.direction)[1].name
       IN /\ EntryAt(SortedCandidates, "94", stop, 14)
          /\ EntryAt(SortedCandidates, "94", stop, 15)
          /\ EntryAt(SortedCandidates, "94", stop, 40)
          /\ EntryAt(aggOut.result.unique, "94", stop, 14)
          /\ ~EntryAt(aggOut.result.unique, "94", stop, 15)
          /\ EntryAt(aggOut.result.unique, "94", stop, 40)
          /\ Len(aggOut.result.unique) > 2

(* every provider call of the last run failed *)
LastRunAllFailed == runs > 0 /\ lastRun.failedStops = lastRun.stopsQueried

(* C14: a run whose provider calls all fail leaves the live set that was     *)
(* valid before it (departures, departureCount) as it was.                   *)
C14_FailedRunKeepsLiveSet ==
    (LastRunAllFailed /\ Len(lastRun.liveBefore) > 0) =>
        lastRun.rendered = lastRun.liveBefore

(* after a failed stop the next stop of the direction is queried, and the   *)
(* Nextbus client queries every stop                                         *)
RunGoesOn ==
    /\ \A k \in 1..Len(aggOut.result.failed) :
          aggOut.result.failed[k] < Len(StopsOf(aggIn.direction))
             => \E q \in 1..Len(aggOut.result.queried) :
                   aggOut.result.queried[q] = aggOut.result.failed[k] + 1
    /\ aggIn.provider = "nextbus"
          => aggOut.result.queried = [i \in 1..Len(StopsOf(aggIn.direction)) |-> i]

SomeCatchable(q) == \E k \in 1..Len(q) : Catchable(q[k])

(* C15: a failed stop does not abort the run: the remaining stops are still *)
(* queried, and the run returns success whenever the stops that answered    *)
(* yield at least one catchable Departure.                                   *)
C15_FailedStopDoesNotAbort ==
    (aggOut.done /\ Len(aggOut.result.failed) > 0) =>
        /\ RunGoesOn
        /\ SomeCatchable(Last(aggOut.result.gathered)) => aggOut.result.success

(* C15 as the code has it: the run returns success whenever a catchable     *)
(* Departure is left after deduplication; a catchable candidate dropped as   *)
(* the duplicate of an uncatchable one does not count.                       *)
C15_FailedStopKeepsRun ==
    (aggOut.done /\ Len(aggOut.result.failed) > 0) =>
        /\ RunGoesOn
        /\ SomeCatchable(aggOut.result.unique) => aggOut.result.success

(* the second stop fails its three attempts, the third is queried and the   *)
(* run succeeds with what the first and the third answered                   *)
C15_Witness ==
    /\ aggOut.done
    /\ aggIn.provider = "nextbus" /\ aggIn.direction = TO_CHELTENHAM
    /\ aggOut.result.failed = << 2 >>
    /\ aggOut.result.queried = << 1, 2, 3 >>
    /\ aggOut.result.httpAttempts = 5
    /\ aggOut.result.success
    /\ \E k \in 1..Len(aggOut.result.departures) :
          aggOut.result.departures[k].stopName = cheltenhamStops[3].name

(* C16: a run returns success iff at least one catchable Departure is left  *)
(* after filtering; when every stop's provider call fails the result has     *)
(* zero Departures and a non-empty error reason, and the display is still    *)
(* given that empty state.                                                   *)
C16_SuccessIffCatchable ==
    runs > 0 =>
        /\ lastRun.success <=> Len(lastRun.rendered) > 0
        /\ \A i \in 1..Len(lastRun.rendered) : Catchable(lastRun.rendered[i])
        /\ LastRunAllFailed =>
              /\ ~lastRun.success
              /\ lastRun.rendered = << >>
              /\ lastError # "" /\ lastRun.reason # ""

(* a run over three stops that all fail, made while buses were shown *)
C16_Witness ==
    /\ LastRunAllFailed
    /\ lastRun.stopsQueried = 3
    /\ Len(lastRun.liveBefore) > 0
    /\ lastRun.rendered = << >> /\ departures = << >>
    /\ lastError = "HTTP 500" /\ lastRun.reason = "HTTP 500"
    /\ lastApiCallCount = 3

(* loop iterations that cover the one-hour backoff *)
LoopsPerBackoff == ExhaustedInterval \div LiveStep

QuotaUsedUp ==
    /\ pc = "loop" /\ wifiConnected
    /\ apiCallsToday >= API_DAILY_LIMIT
    /\ loops + LoopsPerBackoff <= MaxLiveLoops

ScheduledRunOverLimit ==
    /\ pc = "tick" /\ runs > 0
    /\ lastRun.start = now /\ lastBusUpdate = now
    /\ lastRun.callsBefore >= API_DAILY_LIMIT

(* C17: with the loop running, connected and inside the active window, a    *)
(* scheduled run is made again even when apiCallsToday >= API_DAILY_LIMIT:   *)
(* the used-up quota slows polling to the one-hour backoff and never ends it.*)
C17_ExhaustedStillPolls == QuotaUsedUp ~> ScheduledRunOverLimit

(* a scheduled run made with the counter already over the limit *)
C17_Witness ==
    /\ ScheduledRunOverLimit
    /\ lastRun.callsBefore > API_DAILY_LIMIT
    /\ lastRun.stopsQueried > 0
    /\ apiCallsToday = lastRun.callsBefore + lastRun.stopsQueried

(* C18: the ordered list of catchable Departures an Aggregator run produces  *)
(* (the count fetchDepartures returns, stored as departureCount) never holds *)
(* more than the display capacity of 3 entries.                              *)
C18_AtMostDisplayCapacity ==
    aggOut.done => Len(aggOut.result.departures) <= 3

InLeaveInOrder(deps) ==
    \A i \in 1..Len(deps) : \A j \in i..Len(deps) : LeaveIn(deps[i]) <= LeaveIn(deps[j])

(* C19: the Departures an Aggregator run returns are in ascending order of   *)
(* leaveIn (minutesUntilDeparture - walkingTimeMinutes), most urgent first,  *)
(* and the live set is in that order after every decay tick.                 *)
C19_OrderedByLeaveIn ==
    /\ InLeaveInOrder(departures)
    /\ runs > 0 => InLeaveInOrder(lastRun.rendered)

(* a decay tick after a run has left two buses of different urgency *)
C19_Witness ==
    /\ runs > 0 /\ Len(lastRun.rendered) >= 2
    /\ lastTick.decayed /\ decayedSinceRun > 0
    /\ Len(departures) >= 2
    /\ LeaveIn(departures[1]) < LeaveIn(departures[2])
    /\ departures # lastRun.rendered

(* C20: an abrupt restart never loses quota increments: once the persisted  *)
(* record has been reloaded after a restart, apiCallsToday is not negative  *)
(* and is at least the number of provider calls made since the last daily   *)
(* reset.                                                                   *)
C20_RestartKeepsCount ==
    (crashBudget < MaxRestarts /\ pc \in {"loop", "poll", "tick"}) =>
        /\ apiCallsToday >= 0
        /\ apiCallsToday >= callsMade

(* C21: with a clock that has never synchronized, an entry is not dropped   *)
(* as already departed and not filtered out as uncatchable: it gets a safe  *)
(* "unknown" minutes estimate and stays in the result.                      *)
C21_UnsyncedEntryStays ==
    (normOut.done /\ ~normIn.synced) => (~normOut.skipped /\ normOut.kept)

(* C22: whenever the local hour is outside the active window (before        *)
(* ACTIVE_HOURS_START or at/after ACTIVE_HOURS_END) the interval is the      *)
(* default BUS_DATA_REFRESH_INTERVAL_MS, whatever the counter and direction. *)
C22_DefaultOutsideWindow ==
    (/\ pollOut.done /\ pollIn.synced
     /\ (pollIn.hour < ACTIVE_HOURS_START \/ pollIn.hour >= ACTIVE_HOURS_END))
    => pollOut.interval = BUS_DATA_REFRESH_INTERVAL_MS

(* the scheduled poll of this loop iteration has made a run *)
ScheduledRunThisLoop ==
    pc = "tick" /\ runs > 0 /\ lastRun.start = now /\ lastBusUpdate = now

(* C23: a scheduled poll makes exactly one Aggregator run in its loop       *)
(* iteration: the decay tick evaluated later in that iteration, called with  *)
(* the timestamp taken before the fetch, subtracts 0 minutes, removes        *)
(* nothing from the fetched set and triggers no second run.                  *)
C23_TickAfterPollIsIdle ==
    [][ ScheduledRunThisLoop =>
           /\ runs' = runs
           /\ departures' = departures
           /\ decayedSinceRun' = 0 ]_vars

(* C24: a provider authentication failure (HTTP 401 or 403) is not retried: *)
(* the stop's call is attempted exactly once, and the authentication        *)
(* failure is the run's error reason.                                       *)
C24_AuthFailureNotRetried ==
    (/\ aggOut.done /\ aggIn.provider = "nextbus"
     /\ \A i \in 1..Len(aggOut.result.queried) : aggIn.world[i].codes \in {Ok, Fail401}
     /\ \E i \in 1..Len(aggOut.result.queried) : aggIn.world[i].codes = Fail401)
    => /\ aggOut.result.httpAttempts = Len(aggOut.result.queried)
       /\ aggOut.result.lastError = "Authentication failed - check credentials"

(* the place of an entry in the order the candidates were fetched in *)
FetchIndex(d) ==
    LET fetched == Last(aggOut.result.gathered)
    IN CHOOSE i \in 1..Len(fetched) :
          fetched[i] = d /\ \A k \in 1..(i - 1) : fetched[k] # d

(* C25: candidates with equal leaveIn appear in the sorted output in their  *)
(* original fetch order (the sort is stable), for every input list.         *)
C25_SortIsStable ==
    aggOut.done =>
       \A i, j \in 1..Len(aggOut.result.departures) :
          (/\ i < j
           /\ LeaveIn(aggOut.result.departures[i]) = LeaveIn(aggOut.result.departures[j]))
          => FetchIndex(aggOut.result.departures[i]) < FetchIndex(aggOut.result.departures[j])

(* a run was made earlier in this loop iteration, by an MQTT command *)
CommandRunThisLoop ==
    pc = "poll" /\ runs > 0 /\ lastRun.start = now /\ lastRun.stopsQueried > 0

(* C26: in a scheduling cycle in which the local day has changed, the       *)
(* ledger reset (counter zeroed, new day persisted) comes before any        *)
(* provider call is recorded in that cycle, so that calls made on the new   *)
(* day are never wiped by a later reset, whatever started the run.          *)
C26_ResetBeforeCalls ==
    [][ (/\ CommandRunThisLoop
         /\ Len(resetDays') > Len(resetDays)
         /\ Last(resetDays') = (bootWall + lastRun.start) \div MsPerDay)
        => apiCallsToday' >= lastRun.stopsQueried ]_vars

(* C27: a refetch triggered by the decay updates the scheduled-poll timer    *)
(* lastBusUpdate as a normal refresh does (to the timestamp of its loop      *)
(* iteration), so that the next scheduled poll comes no earlier than one     *)
(* refresh interval after the refetch.                                       *)
C27_RefetchResetsPollTimer ==
    [][ (/\ pc = "tick" /\ runs' # runs
         /\ lastTick'.minutesElapsed <= clock \div MsPerMinute)
        => lastBusUpdate' >= now ]_vars

(* C28: when the active window begins while the device is in sleep mode     *)
(* (sleepModeActive goes from true to false), a run is forced in that same   *)
(* loop iteration, given connectivity, however long the device has been      *)
(* running since boot.                                                       *)
C28_WakeForcesRun ==
    (pc = "tick" /\ lastWake = now /\ wifiConnected)
    => (runs > 0 /\ lastRun.start >= now)

(* minutes until a departure, a time more than bound minutes in the past    *)
(* being taken as a time of the following day                               *)
MinutesWithRollover(dep, nowMin, bound) ==
    IF dep - nowMin < -bound THEN dep - nowMin + 24 * 60 ELSE dep - nowMin

(* C29 as stated: for every departure time of day and current time of day,  *)
(* minutesUntilDeparture = dep - now when dep is at most 60 minutes in the   *)
(* past and dep - now + 1440 when it is more than 60 minutes in the past;    *)
(* the result is never below -60 and only results in -60..-1 are discarded.  *)
C29_RolloverAtOneHour ==
    (normOut.done /\ normIn.synced) =>
        /\ normOut.minutesUntil = MinutesWithRollover(normIn.dep, normIn.nowMinutes, 60)
        /\ normOut.minutesUntil >= -60
        /\ normOut.skipped <=> normOut.minutesUntil \in -60..-1

(* the bound parseDepartureTime applies to a time string of the format *)
RolloverBound(provider, format) ==
    IF provider = "nextbus" /\ format = "hhmm" THEN 720 ELSE 60

(* C29, amended: the one-hour bound holds for the ISO 8601 timestamps of the *)
(* Nextbus client and for the Transport client; for a plain HH:MM string the *)
(* Nextbus client rolls over only beyond 720 minutes, results in -720..-1    *)
(* being discarded.                                                          *)
C29_RolloverByFormat ==
    (normOut.done /\ normIn.synced) =>
        LET bound == RolloverBound(normIn.provider, normIn.format)
        IN /\ normOut.minutesUntil =
                 MinutesWithRollover(normIn.dep, normIn.nowMinutes, bound)
           /\ normOut.minutesUntil >= -bound
           /\ normOut.skipped <=> normOut.minutesUntil \in -bound..-1

(* 10:59 seen at 12:00 in an ISO 8601 timestamp: 61 minutes in the past,     *)
(* taken as tomorrow's 10:59                                                 *)
C29_Witness ==
    /\ normOut.done /\ normIn.synced
    /\ normIn.provider = "nextbus" /\ normIn.format = "iso"
    /\ normIn.dep = 659 /\ normIn.nowMinutes = 720
    /\ normOut.minutesUntil = 1379 /\ ~normOut.skipped

(* C30: inside the active window, with more than 50 calls left, the interval *)
(* is never above 30 minutes (1800000 ms), for either direction and any hour *)
(* of the window.                                                            *)
C30_AbundantQuotaCapped ==
    (/\ pollOut.done
     /\ InActiveWindow(pollIn.synced, pollIn.hour)
     /\ API_DAILY_LIMIT - pollOut.callsToday > 50)
    => pollOut.interval <= 1800000

(* 51 calls left at the first hour of the window, towards Cheltenham: the    *)
(* interval is exactly 30 minutes                                            *)
C30_Witness ==
    /\ pollOut.done
    /\ InActiveWindow(pollIn.synced, pollIn.hour)
    /\ pollIn.hour = ACTIVE_HOURS_START /\ pollIn.direction = TO_CHELTENHAM
    /\ API_DAILY_LIMIT - pollOut.callsToday = 51
    /\ pollOut.interval = 1800000

(* C31: for a fixed hour inside the active window and a fixed direction the  *)
(* interval is non-decreasing in the calls made today: no smaller count      *)
(* gives a longer interval, and the interval after a day rollover (count 0)  *)
(* is not longer than the one for the count before it.                       *)
C31_IntervalMonotone ==
    (pollOut.done /\ InActiveWindow(pollIn.synced, pollIn.hour)) =>
        /\ \A c \in PollCalls :
              c <= pollOut.callsToday =>
                 OptimalRefreshInterval(c, TRUE, pollIn.hour, pollIn.direction)
                    <= pollOut.interval
        /\ OptimalRefreshInterval(0, TRUE, pollIn.hour, pollIn.direction)
              <= OptimalRefreshInterval(pollIn.callsToday, TRUE, pollIn.hour,
                                        pollIn.direction)

(* late in the day's budget the interval is strictly longer than at half of  *)
(* it, and still below the backoff                                           *)
C31_Witness ==
    /\ pollOut.done
    /\ InActiveWindow(pollIn.synced, pollIn.hour)
    /\ pollIn.lastResetDay = PollToday
    /\ pollOut.callsToday > 500
    /\ pollOut.interval > OptimalRefreshInterval(500, TRUE, pollIn.hour, pollIn.direction)
    /\ pollOut.interval < ExhaustedInterval

RECURSIVE SumAttempts(_, _)
SumAttempts(tries, k) == IF k = 0 THEN 0 ELSE SumAttempts(tries, k - 1) + tries[k].attempts

(* C32: each stop's request is attempted at least once and at most           *)
(* 1 + MAX_RETRIES = 3 times; every attempt but the last one failed, the     *)
(* attempts stop at the first success, and the waits before the second and   *)
(* the third attempt are 500 ms and 1000 ms.  A run therefore makes at most  *)
(* 3 x stopCount HTTP attempts and comes to an end.                          *)
C32_BoundedRetries ==
    aggOut.done =>
        LET r == aggOut.result
        IN /\ Len(r.tries) = Len(r.queried)
           /\ \A k \in 1..Len(r.tries) :
                 LET codes == aggIn.world[r.queried[k]].codes
                     t == r.tries[k]
                 IN /\ t.attempts \in 1..(1 + MAX_RETRIES)
                    /\ \A a \in 1..(t.attempts - 1) : codes[a] # HTTP_CODE_OK
                    /\ t.attempts < 1 + MAX_RETRIES => codes[t.attempts] = HTTP_CODE_OK
                    /\ t.delays = [a \in 1..(t.attempts - 1) |-> 500 * a]
           /\ r.httpAttempts = SumAttempts(r.tries, Len(r.tries))
           /\ r.httpAttempts <= (1 + MAX_RETRIES) * Len(StopsOf(aggIn.direction))

(* one stop answers at once, one at the second attempt and one never: 1, 2   *)
(* and 3 attempts                                                            *)
C32_Witness ==
    /\ aggOut.done
    /\ Len(aggOut.result.tries) = 3
    /\ aggOut.result.tries[1].attempts = 1
    /\ aggOut.result.tries[2] = [httpCode |-> HTTP_CODE_OK, attempts |-> 2, delays |-> << 500 >>]
    /\ aggOut.result.tries[3] = [httpCode |-> 500, attempts |-> 3, delays |-> << 500, 1000 >>]
    /\ aggOut.result.httpAttempts = 6

(* C33: a Nextbus run with forceFetchAll = true queries every stop of the    *)
(* direction exactly once, in catalog order, and its lastApiCallCount is the *)
(* direction's stop count (3 for Cheltenham, 2 for Churchdown), whatever the *)
(* earlier stops returned.                                                   *)
C33_ForcedRunQueriesAllStops ==
    (aggOut.done /\ aggIn.provider = "nextbus" /\ aggIn.forceFetchAll) =>
        /\ aggOut.result.queried = [i \in 1..Len(StopsOf(aggIn.direction)) |-> i]
        /\ aggOut.result.lastApiCallCount = Len(StopsOf(aggIn.direction))
        /\ aggOut.result.lastApiCallCount
              = (IF aggIn.direction = TO_CHELTENHAM THEN 3 ELSE 2)
        /\ aggOut.result.fetchedAllStops

(* the first stop alone gave three catchable candidates and the two other    *)
(* stops were queried all the same                                           *)
C33_Witness ==
    /\ aggOut.done /\ aggIn.provider = "nextbus" /\ aggIn.forceFetchAll
    /\ aggIn.direction = TO_CHELTENHAM
    /\ Len(aggOut.result.gathered[1]) = 3
    /\ \A k \in 1..3 : IsCatchable(aggOut.result.gathered[1][k])
    /\ aggOut.result.queried = << 1, 2, 3 >>
    /\ aggOut.result.lastApiCallCount = 3

(* entry a is entry b with n minutes taken off, not below 0 *)
LoweredFrom(a, b, n) ==
    /\ a.minutesUntilDeparture
          = (IF b.minutesUntilDeparture - n < 0 THEN 0 ELSE b.minutesUntilDeparture - n)
    /\ a.minutesUntilDeparture <= b.minutesUntilDeparture
    /\ a = [b EXCEPT !.minutesUntilDeparture = a.minutesUntilDeparture]

(* after is, entry by entry and in order, a selection of before *)
DecayedSubsequence(after, before, n) ==
    \E f \in [1..Len(after) -> 1..Len(before)] :
       /\ \A k \in 1..(Len(after) - 1) : f[k] < f[k + 1]
       /\ \A k \in 1..Len(after) : LoweredFrom(after[k], before[f[k]], n)

(* C34: a call of decrementDepartureCountdowns that makes no refetch leaves  *)
(* a live set that is a subsequence of the one before it, each entry kept    *)
(* unchanged but for minutesUntilDeparture, which is lowered by the minutes  *)
(* elapsed and floored at 0: no entry is added or moved, departureCount does *)
(* not grow and every minutesUntilDeparture is >= 0.                         *)
C34_DecayOnlyRemoves ==
    (decayOut.done /\ decayOut.once.runs = decayOut.before.runs) =>
        /\ DecayedSubsequence(decayOut.once.departures, decayOut.before.departures,
                              decayIn.minutesElapsed)
        /\ Len(decayOut.once.departures) <= Len(decayOut.before.departures)
        /\ \A k \in 1..Len(decayOut.once.departures) :
              decayOut.once.departures[k].minutesUntilDeparture >= 0

(* two minutes taken from three entries of which the first is dropped and    *)
(* the two others stay in their order                                        *)
C34_Witness ==
    /\ decayOut.done /\ decayOut.once.runs = decayOut.before.runs
    /\ decayIn.minutesElapsed = 2
    /\ Len(decayOut.before.departures) = 3
    /\ Len(decayOut.once.departures) = 2
    /\ decayOut.once.departures[1] # decayOut.once.departures[2]
    /\ LoweredFrom(decayOut.once.departures[1], decayOut.before.departures[2], 2)
    /\ LoweredFrom(decayOut.once.departures[2], decayOut.before.departures[3], 2)
(* C35: a call of decrementDepartureCountdowns whose decay removes no entry, *)
(* or leaves at least 3 entries, makes no Aggregator run and no provider     *)
(* call, and leaves the quota counter, its persisted record, lastAutoRefetch *)
(* and lastBusUpdate as they were.                                           *)
C35_StableTickIsIdle ==
    (/\ decayOut.done
     /\ decayOut.once.lastTick.decayed
     /\ \/ decayOut.once.lastTick.removed = 0
        \/ decayOut.once.lastTick.remaining >= 3)
    => /\ decayOut.once.runs = decayOut.before.runs
       /\ decayOut.once.callsMade = decayOut.before.callsMade
       /\ decayOut.once.apiCallsToday = decayOut.before.apiCallsToday
       /\ decayOut.once.prefs = decayOut.before.prefs
       /\ decayOut.once.lastAutoRefetch = decayOut.before.lastAutoRefetch
       /\ decayOut.once.lastBusUpdate = decayOut.before.lastBusUpdate
       /\ ~decayOut.once.lastTick.refetched

(* connected, awake and past the cooldown: one of four entries is removed,   *)
(* three are left and no run is made                                         *)
C35_Witness ==
    /\ decayOut.done
    /\ decayIn.wifi /\ decayOut.once.lastTick.active
    /\ CooldownElapsed(decayOut.before.clock, decayOut.before)
    /\ decayOut.once.lastTick.removed = 1
    /\ decayOut.once.lastTick.remaining = 3
    /\ decayOut.once.runs = decayOut.before.runs

(* the texts of FilterTexts that hold, in any case of letters, one of the    *)
(* accepted substrings of the direction                                      *)
AcceptedTexts(direction) ==
    IF direction = TO_CHELTENHAM
    THEN { <<"C","h","e","l","t","e","n","h","a","m"," ","S","p","a">>,
           <<"P","R","O","M","E","N","A","D","E">> }
    ELSE { <<"G","l","o","u","c","e","s","t","e","r"," ","T","r","a","n","s","p","o","r","t"," ","H","u","b">>,
           <<"C","H","U","R","C","H","D","O","W","N">> }

(* C36: every Departure a run returns has a route of the allow-list (94, 95, *)
(* 96, 97, 98) and a destination text holding, case-insensitively, one of    *)
(* the accepted substrings of the direction fetched; and every raw visit of  *)
(* that kind, here catchable and within the per-stop cap, is returned, so    *)
(* that only the others are discarded.                                       *)
C36_OnlyAllowedEntries ==
    aggOut.done =>
        /\ \A k \in 1..Len(aggOut.result.departures) :
              /\ aggOut.result.departures[k].busNumber \in {"94", "95", "96", "97", "98"}
              /\ aggOut.result.departures[k].destination \in AcceptedTexts(aggIn.direction)
        /\ \A k \in 1..Len(aggIn.world[1].visits) :
              LET v == aggIn.world[1].visits[k]
              IN (/\ Len(aggIn.world[1].visits) <= MAX_BUSES_PER_STOP
                  /\ v.route \in {"94", "95", "96", "97", "98"}
                  /\ v.dest \in AcceptedTexts(aggIn.direction))
                 => \E j \in 1..Len(aggOut.result.departures) :
                       /\ aggOut.result.departures[j].busNumber = v.route
                       /\ aggOut.result.departures[j].stopName
                             = StopsOf(aggIn.direction)[1].name

(* of two raw visits the one with a foreign route or destination is dropped  *)
(* and the other one, its text in capitals, is returned                      *)
C36_Witness ==
    /\ aggOut.done
    /\ Len(aggIn.world[1].visits) = 2
    /\ \/ aggIn.world[1].visits[1].route \notin {"94", "95", "96", "97", "98"}
       \/ aggIn.world[1].visits[1].dest \notin AcceptedTexts(aggIn.direction)
    /\ aggIn.world[1].visits[1].route # ""
    /\ Len(aggIn.world[1].visits[1].dest) > 0
    /\ Len(aggOut.result.departures) = 1
    /\ aggOut.result.departures[1].busNumber = aggIn.world[1].visits[2].route
    /\ aggOut.result.departures[1].destination \in
          { <<"P","R","O","M","E","N","A","D","E">>, <<"C","H","U","R","C","H","D","O","W","N">> }

(* the status of an estimate that is d minutes after the scheduled time *)
StatusOfDelay(d) ==
    IF d >= -1 /\ d <= 1 THEN [kind |-> "On time", n |-> 0]
    ELSE IF d > 0 THEN [kind |-> "Delayed", n |-> d]
    ELSE [kind |-> "Early", n |-> -d]

(* C37: an entry with a real-time estimate has the status "On time" when the *)
(* estimate is within 1 minute of the scheduled time and otherwise           *)
(* "Delayed N min" or "Early N min", N being the difference in minutes       *)
(* between the estimated and the scheduled time, also when the two lie on    *)
(* opposite sides of midnight.                                               *)
C37_StatusIsTrueDelay ==
    (normOut.done /\ ~normOut.visit.skip /\ normOut.visit.dep.isLive)
    => normOut.visit.dep.statusText = StatusOfDelay(normIn.delay)

(* C38: a call of fetchAndDisplayBuses queries each stop of the direction    *)
(* at most once and adds at most the direction's stop count (3 for           *)
(* Cheltenham, 2 for Churchdown) to apiCallsToday.                           *)
C38_RunQueriesStopsOnce ==
    [][ runs' = runs + 1 =>
           /\ lastRun'.stopsQueried <= Len(StopsOf(currentDirection'))
           /\ lastRun'.callsAfter - lastRun'.callsBefore
                 <= Len(StopsOf(currentDirection')) ]_vars

RECURSIVE DecayTimes(_, _)
DecayTimes(deps, n) == IF n = 0 THEN deps ELSE DecayTimes(Decay(deps, 1), n - 1)

(* C11: the decay of decrementDepartureCountdowns(N), the minutes left and   *)
(* the entries kept, is that of N calls of decrementDepartureCountdowns(1),  *)
(* for every live set and N >= 0; a call with 0 minutes changes nothing and  *)
(* makes no run.                                                             *)
C11_DecayAdditive ==
    decayOut.done =>
        /\ Decay(decayIn.live, decayIn.minutesElapsed)
              = DecayTimes(decayIn.live, decayIn.minutesElapsed)
        /\ (decayOut.once.runs = 0 /\ decayOut.stepwise.runs = 0)
              => decayOut.once.departures = decayOut.stepwise.departures
        /\ decayIn.minutesElapsed = 0 => decayOut.once = decayOut.before

(* three minutes taken at once from three entries, of which one is left *)
C11_Witness ==
    /\ decayOut.done
    /\ decayIn.minutesElapsed = 3 /\ Len(decayIn.live) = 3 /\ ~decayIn.wifi
    /\ Len(decayOut.once.departures) = 1
    /\ decayOut.once.departures[1].minutesUntilDeparture
          = decayIn.live[3].minutesUntilDeparture - 3
    /\ decayOut.once.runs = 0
============================================================================
